---- MODULE Spec2Model ----
(***************************************************************************)
(* electron-conf: the configuration store engine (BaseConf, src/src/conf.ts) *)
(* modelled over an explicit object heap.  JavaScript objects are heap      *)
(* cells addressed by a number; a property holds either a primitive or a    *)
(* reference to another cell, so that the shallow clones made by the store  *)
(* getter share their nested objects with the cached document exactly as    *)
(* Object.assign makes them do.  The file holds the serialized document.    *)
(***************************************************************************)
EXTENDS Integers, Sequences, FiniteSets, TLC

VARIABLES
    up,        \* TRUE while a store instance exists (the constructor returned)
    heap,      \* address -> object (a finite map from property name to value)
    root,      \* this._store: address of the cached document
    defs,      \* this.defaultValues: [keys |-> Object.keys order, a |-> address]
    schemaOn,  \* this.validator is set
    disk,      \* the configuration file: [exists, doc]
    subs,      \* listeners on this.events, in registration order
    options,   \* the options the current (or, once closed, the last) instance was built with
    threw,     \* a call on the current (or, once closed, the last) instance has thrown
    last,      \* observation of the last call: arguments, outcome, callbacks
    io,        \* the file write in progress inside BaseConf.write, if any
    ipc,       \* the requests of renderer proxies not yet handled, in the order sent
    handles,   \* the number of unsubscribe functions handed out to callers that keep them
    peer       \* a second store instance constructed on the same file, if any

vars == <<up, heap, root, defs, schemaOn, disk, subs, options, threw, last, io, ipc, handles, peer>>

-----------------------------------------------------------------------------
(* Values.  A value is a record [t, n, s, f]: t is the typeof tag ("null"   *)
(* for null), n a number or, for a heap reference, the address, s a string, *)
(* f the properties of an object given by value (a tree: JSON text parsed,  *)
(* or an argument of the caller before it is allocated).                    *)

NoFields == << >>

Undef == [t |-> "undefined", n |-> 0, s |-> "", f |-> NoFields]

Null == [t |-> "null", n |-> 0, s |-> "", f |-> NoFields]

Num(i) == [t |-> "number", n |-> i, s |-> "", f |-> NoFields]

Str(x) == [t |-> "string", n |-> 0, s |-> x, f |-> NoFields]

Fun == [t |-> "function", n |-> 0, s |-> "", f |-> NoFields]

Ref(a) == [t |-> "object", n |-> a, s |-> "", f |-> NoFields]

Obj(fields) == [t |-> "object", n |-> 0, s |-> "", f |-> fields]

\* dot-prop isObject: typeof value is 'object' and value is not null
isObject(v) == v.t = "object"

\* obj[key] = v
PutKey(obj, key, v) == [k \in DOMAIN obj \cup {key} |-> IF k = key THEN v ELSE obj[k]]

\* delete obj[key]
DropKey(obj, key) == [k \in DOMAIN obj \ {key} |-> obj[k]]

\* obj[key], undefined when the property is absent
Prop(obj, key) == IF key \in DOMAIN obj THEN obj[key] ELSE Undef

-----------------------------------------------------------------------------
(* The heap.                                                                *)

\* a fresh object identity: the least unused address
Alloc(h) ==
    CHOOSE a \in 1..(Cardinality(DOMAIN h) + 1) :
        a \notin DOMAIN h /\ \A b \in 1..(a - 1) : b \in DOMAIN h

\* Object.create(null)
createPlainObject(h) ==
    LET a == Alloc(h) IN [h |-> [x \in DOMAIN h \cup {a} |-> IF x = a THEN NoFields ELSE h[x]], a |-> a]

\* Object.assign(createPlainObject(), source): own properties copied by
\* reference, nested objects stay shared with the source
cloneObject(h, src) ==
    LET a == Alloc(h) IN [h |-> [x \in DOMAIN h \cup {a} |-> IF x = a THEN h[src] ELSE h[x]], a |-> a]

\* Object.assign(createPlainObject(), s1, s2): properties of s2 win
mergeObject(h, s1, s2) ==
    LET a == Alloc(h)
        o == [k \in DOMAIN h[s1] \cup DOMAIN h[s2] |->
                 IF k \in DOMAIN h[s2] THEN h[s2][k] ELSE h[s1][k]]
    IN [h |-> [x \in DOMAIN h \cup {a} |-> IF x = a THEN o ELSE h[x]], a |-> a]

RECURSIVE Snapshot(_, _)
\* the structure reachable from a value, by value
Snapshot(h, v) ==
    IF isObject(v) /\ v.n # 0
    THEN Obj([k \in DOMAIN h[v.n] |-> Snapshot(h, h[v.n][k])])
    ELSE v

RECURSIVE Import(_, _)
RECURSIVE ImportFields(_, _, _, _)
\* allocate a value given as a tree: every object of it becomes a new cell
Import(h, v) ==
    IF isObject(v)
    THEN LET c == createPlainObject(h)
         IN [h |-> ImportFields(c.h, c.a, v.f, DOMAIN v.f), v |-> Ref(c.a)]
    ELSE [h |-> h, v |-> v]

ImportFields(h, a, f, ks) ==
    IF ks = {} THEN h
    ELSE LET k == CHOOSE x \in ks : TRUE
             r == Import(h, f[k])
         IN ImportFields([r.h EXCEPT ![a] = PutKey(@, k, r.v)], a, f, ks \ {k})

\* util.isDeepStrictEqual on plain data: same structure, same primitives
deepEqual(h, v1, v2) == Snapshot(h, v1) = Snapshot(h, v2)

RECURSIVE deepCloneObject(_, _)
RECURSIVE DeepCloneFields(_, _, _, _)
\* a deepCloneObject that hands back the source itself
deepCloneObject_shared(h, v) == [h |-> h, v |-> v]

\* a copy that shares no object with the source
deepCloneObject(h, v) ==
    IF ~isObject(v) THEN [h |-> h, v |-> v]
    ELSE LET c == createPlainObject(h)
         IN [h |-> DeepCloneFields(c.h, c.a, v.n, DOMAIN h[v.n]), v |-> Ref(c.a)]

DeepCloneFields(h, a, src, ks) ==
    IF ks = {} THEN h
    ELSE LET k == CHOOSE x \in ks : TRUE
             r == deepCloneObject(h, h[src][k])
         IN DeepCloneFields([r.h EXCEPT ![a] = PutKey(@, k, r.v)], a, src, ks \ {k})

RECURSIVE Reach(_, _)
\* addresses reachable from a value
Reach(h, v) ==
    IF isObject(v) /\ v.n # 0
    THEN {v.n} \cup UNION {Reach(h, h[v.n][k]) : k \in DOMAIN h[v.n]}
    ELSE {}

-----------------------------------------------------------------------------
(* dot-prop.  A key such as 'bar.baz' is held as the sequence of its        *)
(* segments <<"bar", "baz">>; the operators walk the path the way           *)
(* getProperty, hasProperty, setProperty and deleteProperty walk it.        *)

RECURSIVE getProperty(_, _, _, _, _)
\* the value at path[i..] under object a, or the default
getProperty(h, a, path, i, dflt) ==
    LET v == Prop(h[a], path[i])
    IN IF v.t \in {"undefined", "null"}
       THEN IF i # Len(path) THEN dflt
            ELSE IF v.t = "undefined" THEN dflt ELSE v
       ELSE IF i = Len(path) THEN v
       ELSE IF isObject(v) THEN getProperty(h, v.n, path, i + 1, dflt)
       ELSE dflt

RECURSIVE hasProperty(_, _, _, _)
\* every segment is an own key of an object
hasProperty(h, a, path, i) ==
    /\ path[i] \in DOMAIN h[a]
    /\ \/ i = Len(path)
       \/ /\ isObject(h[a][path[i]])
          /\ hasProperty(h, h[a][path[i]].n, path, i + 1)

RECURSIVE setProperty(_, _, _, _, _)
\* assigns in place; a missing or non-object intermediate becomes a new {}
setProperty(h, a, path, i, value) ==
    IF i = Len(path) THEN [h EXCEPT ![a] = PutKey(@, path[i], value)]
    ELSE IF isObject(Prop(h[a], path[i]))
         THEN setProperty(h, h[a][path[i]].n, path, i + 1, value)
         ELSE LET c == createPlainObject(h)
              IN setProperty([c.h EXCEPT ![a] = PutKey(@, path[i], Ref(c.a))],
                             c.a, path, i + 1, value)

RECURSIVE deleteProperty(_, _, _, _)
\* a deleteProperty that takes the last segment for a top-level key
deleteProperty_flat(h, a, path, i) == [h EXCEPT ![a] = DropKey(@, path[Len(path)])]

\* deletes in place; stops at a non-object intermediate
deleteProperty(h, a, path, i) ==
    IF i = Len(path) THEN [h EXCEPT ![a] = DropKey(@, path[i])]
    ELSE IF isObject(Prop(h[a], path[i]))
         THEN deleteProperty(h, h[a][path[i]].n, path, i + 1)
         ELSE h

-----------------------------------------------------------------------------
(* Serializer and schema.                                                   *)

INTERNAL_KEY == "__internal__"

MIGRATION_KEY == <<INTERNAL_KEY, "migrationVersion">>

BAN_TYPES == {"undefined", "symbol", "function"}

RECURSIVE JsonWrite(_)
\* JSON.stringify: the document by value; properties whose value JSON cannot
\* represent are left out
JsonWrite(t) ==
    IF isObject(t)
    THEN Obj([k \in {x \in DOMAIN t.f : t.f[x].t \notin BAN_TYPES} |-> JsonWrite(t.f[k])])
    ELSE t

\* JsonSerializer.write
SerializerWrite(h, a) == JsonWrite(Snapshot(h, Ref(a)))

\* JsonSerializer.read: JSON.parse builds new objects
SerializerRead(h, text) == Import(h, text)

\* the schema of the test suite: foo a string of bounded length, bar an
\* object whose baz is a bounded number, both nullable and optional
MaxLength == 10

Maximum == 99

NullOrAbsent(v) == v.t \in {"undefined", "null"}

\* the compiled validator applied to a document given by value
validator(doc) ==
    LET foo == Prop(doc.f, "foo")
        bar == Prop(doc.f, "bar")
    IN /\ NullOrAbsent(foo) \/ (foo.t = "string" /\ Len(foo.s) <= MaxLength)
       /\ \/ NullOrAbsent(bar)
          \/ /\ isObject(bar)
             /\ LET baz == Prop(bar.f, "baz")
                IN NullOrAbsent(baz) \/ (baz.t = "number" /\ baz.n <= Maximum)

-----------------------------------------------------------------------------
(* The store.  Operations thread a machine record M through their steps:   *)
(* heap, root, disk, subs as the variables; calls, the callbacks invoked;   *)
(* writes and events, counters of file writes and dispatched events; hooks, *)
(* the migration hooks invoked; err, the exception in flight ("" if none).  *)

\* BaseConf.validate: no validator, or the document passes
validate(M, a) == ~M.schemaOn \/ validator(Snapshot(M.heap, Ref(a)))

\* a write that serializes the cached document in place of its argument
write_cache(M, a) ==
    [M EXCEPT !.disk = [exists |-> TRUE, doc |-> SerializerWrite(M.heap, M.root)],
              !.writes = @ + 1]

\* BaseConf.write: the file holds the serialized document
write(M, a) ==
    [M EXCEPT !.disk = [exists |-> TRUE, doc |-> SerializerWrite(M.heap, a)],
              !.writes = @ + 1]

\* a store getter that reads the file on every access
storeGet_reread(M) ==
    LET p == Import(M.heap, M.disk.doc) IN cloneObject(p.h, p.v.n)

\* store getter on a constructed instance: a shallow clone of the cache
storeGet(M) == cloneObject(M.heap, M.root)

\* the getter a subscription re-evaluates: the whole store or get(key)
getter(M, sub) ==
    LET g == storeGet(M)
    IN IF sub.kind = "any" THEN [h |-> g.h, v |-> Ref(g.a)]
       ELSE [h |-> g.h, v |-> getProperty(g.h, g.a, sub.key, 1, Undef)]

\* onChange of subscription i; the record of a callback invocation keeps,
\* next to its arguments, what the callback can observe while it runs: the
\* cached document (doc) and the file.  A subscription holds in cur the
\* variable currentValue, a reference when the value is an object, and in
\* seen what the caller has seen of it: by value, the newValue last passed
\* to the callback or, before any invocation, the value watched when the
\* subscription was made
onChange(M, i) ==
    LET oldValue == M.subs[i].cur
        g == getter(M, M.subs[i])
    IN IF deepEqual(g.h, g.v, oldValue) THEN [M EXCEPT !.heap = g.h]
       ELSE [M EXCEPT !.heap = g.h,
                      !.subs[i].cur = g.v,
                      !.subs[i].seen = Snapshot(g.h, g.v),
                      !.calls = Append(@, [sub |-> i,
                                           new |-> Snapshot(g.h, g.v),
                                           old |-> Snapshot(g.h, oldValue),
                                           doc |-> Snapshot(M.heap, Ref(M.root)),
                                           file |-> M.disk])]

RECURSIVE Listeners(_, _)
\* the listeners run in registration order
Listeners(M, i) == IF i > Len(M.subs) THEN M ELSE Listeners(onChange(M, i), i + 1)

\* events.dispatchEvent(new Event('change'))
dispatchEvent(M) == Listeners([M EXCEPT !.events = @ + 1], 1)

\* a store setter that dispatches before it writes
storeSet_early(M, a) ==
    IF M.err # "" THEN M
    ELSE IF ~validate(M, a) THEN [M EXCEPT !.err = "schema"]
    ELSE LET D == dispatchEvent([M EXCEPT !.root = a])
         IN write(D, a)

\* a store setter that leaves the cache as it was
storeSet_stale(M, a) ==
    IF M.err # "" THEN M
    ELSE IF ~validate(M, a) THEN [M EXCEPT !.err = "schema"]
    ELSE dispatchEvent(write(M, a))

\* a store setter that lays the new document over the one the file holds
storeSet_merge(M, a) ==
    IF M.err # "" THEN M
    ELSE LET p == IF M.disk.exists THEN SerializerRead(M.heap, M.disk.doc)
                  ELSE [h |-> M.heap, v |-> Ref(a)]
             m == mergeObject(p.h, p.v.n, a)
             M1 == [M EXCEPT !.heap = m.h]
         IN IF ~validate(M1, m.a) THEN [M1 EXCEPT !.err = "schema"]
            ELSE dispatchEvent([write(M1, m.a) EXCEPT !.root = m.a])

\* store setter: validate, write, replace the cache, dispatch
storeSet(M, a) ==
    IF M.err # "" THEN M
    ELSE IF ~validate(M, a) THEN [M EXCEPT !.err = "schema"]
    ELSE dispatchEvent([write(M, a) EXCEPT !.root = a])

\* BaseConf.get
get(M, key, dflt) == LET g == storeGet(M) IN getProperty(g.h, g.a, key, 1, dflt)

\* BaseConf.has
has(M, key) == LET g == storeGet(M) IN hasProperty(g.h, g.a, key, 1)

\* containsReservedKey for a string key: key.startsWith('__internal__.')
\* a guard that lets every string key through
containsReservedKey_off(key) == FALSE

\* containsReservedKey for a string key: it starts with '__internal__.'
containsReservedKey(key) == Len(key) >= 2 /\ key[1] = INTERNAL_KEY

\* containsReservedKey for a mapping: its first key is '__internal__'
containsReservedFirstKey(pairs) ==
    Len(pairs) >= 1 /\ pairs[1].key = <<INTERNAL_KEY>>

RECURSIVE setEntries(_, _, _, _)
\* the inner set of BaseConf.set applied to the entries in order, on the
\* store copy at address a
setEntries(M, a, pairs, i) ==
    IF i > Len(pairs) THEN M
    ELSE IF pairs[i].val.t \in BAN_TYPES THEN [M EXCEPT !.err = "type"]
    ELSE setEntries([M EXCEPT !.heap = setProperty(@, a, pairs[i].key, 1, pairs[i].val)],
                    a, pairs, i + 1)

\* BaseConf.set(key, value)
set(M, key, value) ==
    IF M.err # "" THEN M
    ELSE IF value.t = "undefined" THEN [M EXCEPT !.err = "type"]
    ELSE IF containsReservedKey(key) THEN [M EXCEPT !.err = "type"]
    ELSE LET g == storeGet(M)
         IN storeSet(setEntries([M EXCEPT !.heap = g.h], g.a,
                                <<[key |-> key, val |-> value]>>, 1), g.a)

\* BaseConf.set(object)
setObject(M, pairs) ==
    IF M.err # "" THEN M
    ELSE IF containsReservedFirstKey(pairs) THEN [M EXCEPT !.err = "type"]
    ELSE LET g == storeGet(M)
         IN storeSet(setEntries([M EXCEPT !.heap = g.h], g.a, pairs, 1), g.a)

RECURSIVE reset_null(_, _, _)
\* a reset that skips absent defaults only and sets a null default
reset_null(M, keys, i) ==
    IF M.err # "" \/ i > Len(keys) THEN M
    ELSE LET dv == IF Len(keys[i]) = 1 THEN Prop(M.heap[M.defs.a], keys[i][1]) ELSE Undef
             c == deepCloneObject(M.heap, dv)
         IN IF c.v.t = "undefined" THEN reset_null(M, keys, i + 1)
            ELSE reset_null(set([M EXCEPT !.heap = c.h], keys[i], c.v), keys, i + 1)

RECURSIVE reset(_, _, _)
\* BaseConf.reset(...keys), from the i-th key on
reset(M, keys, i) ==
    IF M.err # "" \/ i > Len(keys) THEN M
    ELSE LET dv == IF Len(keys[i]) = 1 THEN Prop(M.heap[M.defs.a], keys[i][1]) ELSE Undef
             c == deepCloneObject(M.heap, dv)
         IN IF c.v.t \in {"undefined", "null"} THEN reset(M, keys, i + 1)
            ELSE reset(set([M EXCEPT !.heap = c.h], keys[i], c.v), keys, i + 1)

\* BaseConf.delete
delete(M, key) ==
    LET g == storeGet(M)
    IN storeSet([M EXCEPT !.heap = deleteProperty(g.h, g.a, key, 1)], g.a)

\* a clear that restores the defaults without emptying the document
clear_keep(M) == reset(M, [j \in 1..Len(M.defs.keys) |-> <<M.defs.keys[j]>>], 1)

\* BaseConf.clear
clear(M) ==
    LET c == createPlainObject(M.heap)
    IN reset(storeSet([M EXCEPT !.heap = c.h], c.a),
             [j \in 1..Len(M.defs.keys) |-> <<M.defs.keys[j]>>], 1)

-----------------------------------------------------------------------------
(* Construction and migrations.                                             *)

\* BaseConf.read: an absent file reads as an empty document
read(M) ==
    IF ~M.disk.exists THEN createPlainObject(M.heap)
    ELSE LET p == SerializerRead(M.heap, M.disk.doc) IN cloneObject(p.h, p.v.n)

RECURSIVE InsertSorted(_, _)
\* m placed after every entry whose version is not greater (a stable sort)
InsertSorted(sorted, m) ==
    IF sorted = << >> THEN <<m>>
    ELSE IF sorted[Len(sorted)].version <= m.version THEN Append(sorted, m)
    ELSE Append(InsertSorted(SubSeq(sorted, 1, Len(sorted) - 1), m), sorted[Len(sorted)])

\* a migrate that takes the migrations in the order supplied
SortByVersion_supplied(migs) == migs

RECURSIVE SortByVersion(_)
\* migrations.sort((a, b) => a.version - b.version)
SortByVersion(migs) ==
    IF migs = << >> THEN << >>
    ELSE InsertSorted(SortByVersion(SubSeq(migs, 1, Len(migs) - 1)), migs[Len(migs)])

\* a filter that keeps the version already recorded
Pending_again(migs, version) == SelectSeq(migs, LAMBDA m : m.version >= version)

\* .filter((m) => m.version > version)
Pending(migs, version) == SelectSeq(migs, LAMBDA m : m.version > version)

\* migration.hook(this, version): the hooks of the model call conf.set once;
\* the record of a hook invocation keeps the migration, the version argument
\* and the file as it is when the hook starts
hook(M, m, version) ==
    LET v == Import(M.heap, m.val)
    IN set([M EXCEPT !.heap = v.h,
                     !.hooks = Append(@, [m |-> m, arg |-> version, file |-> M.disk])],
           m.key, v.v)

RECURSIVE MigrateFrom_strict(_, _, _, _)
\* a loop that compares each migration with the version recorded so far
MigrateFrom_strict(M, pending, i, version) ==
    IF M.err # "" \/ i > Len(pending) THEN M
    ELSE IF pending[i].version <= version
    THEN MigrateFrom_strict(M, pending, i + 1, version)
    ELSE LET H == hook(M, pending[i], version)
             g == storeGet(H)
             h2 == setProperty(g.h, g.a, MIGRATION_KEY, 1, Num(pending[i].version))
         IN IF H.err # "" THEN H
            ELSE MigrateFrom_strict(storeSet([H EXCEPT !.heap = h2], g.a),
                                    pending, i + 1, pending[i].version)

RECURSIVE MigrateFrom(_, _, _, _)
\* the loop of BaseConf.migrate from the i-th pending migration on
MigrateFrom(M, pending, i, version) ==
    IF M.err # "" \/ i > Len(pending) THEN M
    ELSE LET H == hook(M, pending[i], version)
             g == storeGet(H)
             h2 == setProperty(g.h, g.a, MIGRATION_KEY, 1, Num(pending[i].version))
         IN IF H.err # "" THEN H
            ELSE MigrateFrom(storeSet([H EXCEPT !.heap = h2], g.a),
                             pending, i + 1, pending[i].version)

\* BaseConf.migrate
migrate(M, migs) ==
    IF M.err # "" \/ Len(migs) = 0 THEN M
    ELSE LET version == get(M, MIGRATION_KEY, Num(0)).n
         IN MigrateFrom(M, Pending(SortByVersion(migs), version), 1, version)

\* a constructor that writes the merged document before validating it
applyDefaults_unchecked(M, defaults) ==
    IF ~defaults.given THEN M
    ELSE LET d == Import(M.heap, Obj(defaults.f))
             dc == deepCloneObject(d.h, d.v)
             st == mergeObject(dc.h, dc.v.n, M.root)
             M1 == [M EXCEPT !.heap = st.h]
         IN IF ~validate(M1, st.a) THEN [write(M1, st.a) EXCEPT !.err = "schema"]
            ELSE storeSet(M1, st.a)

\* the defaults branch of the constructor: record the defaults, merge the
\* loaded document over a deep clone of them, validate, write if different
applyDefaults(M, defaults) ==
    IF ~defaults.given THEN M
    ELSE LET d == Import(M.heap, Obj(defaults.f))
             dv == cloneObject(d.h, d.v.n)
             dc == deepCloneObject(dv.h, d.v)
             st == mergeObject(dc.h, dc.v.n, M.root)
             M1 == [M EXCEPT !.heap = st.h, !.defs = [keys |-> defaults.keys, a |-> dv.a]]
         IN IF ~validate(M1, st.a) THEN [M1 EXCEPT !.err = "schema"]
            ELSE IF ~deepEqual(M1.heap, Ref(M.root), Ref(st.a)) THEN storeSet(M1, st.a)
            ELSE M1

\* the state of a process that holds no store
NoStore(d) ==
    [heap |-> << >>, root |-> 0, defs |-> [keys |-> << >>, a |-> 0], schemaOn |-> FALSE,
     disk |-> d, subs |-> << >>, calls |-> << >>, writes |-> 0, events |-> 0,
     hooks |-> << >>, reads |-> 0, err |-> ""]

\* no second instance exists
NoPeer == [up |-> FALSE, heap |-> << >>, root |-> 0, defs |-> [keys |-> << >>, a |-> 0]]

\* new BaseConf({schema, defaults, migrations}) on the file d
constructor(d, schema, defaults, migs) ==
    LET e == createPlainObject(<< >>)
        M0 == [NoStore(d) EXCEPT !.heap = e.h, !.defs = [keys |-> << >>, a |-> e.a],
                                 !.schemaOn = schema]
        r == read(M0)
        M1 == [M0 EXCEPT !.heap = r.h, !.root = r.a,
                         !.reads = IF d.exists THEN @ + 1 ELSE @]
    IN IF ~validate(M1, r.a) THEN [M1 EXCEPT !.err = "schema"]
       ELSE migrate(applyDefaults(M1, defaults), migs)

RECURSIVE MigrateCut_bumpFirst(_, _, _, _, _, _)
\* a loop that writes the version of a migration before it invokes the hook
MigrateCut_bumpFirst(M, pending, i, version, cut, how) ==
    IF M.err # "" \/ i > Len(pending) THEN M
    ELSE LET g == storeGet(M)
             h2 == setProperty(g.h, g.a, MIGRATION_KEY, 1, Num(pending[i].version))
             B == storeSet([M EXCEPT !.heap = h2], g.a)
             H == hook(B, pending[i], version)
         IN IF H.err # "" THEN H
            ELSE IF i = cut THEN [H EXCEPT !.err = how]
            ELSE MigrateCut_bumpFirst(H, pending, i + 1, pending[i].version, cut, how)

RECURSIVE MigrateCut(_, _, _, _, _, _)
\* the loop of BaseConf.migrate interrupted in its cut-th iteration, after
\* the writes of the hook and before the version is written: the hook
\* throws after its set (how = "hook"; migrate catches nothing, the error
\* leaves the constructor) or the process dies there (how = "crash")
MigrateCut(M, pending, i, version, cut, how) ==
    IF M.err # "" \/ i > Len(pending) THEN M
    ELSE LET H == hook(M, pending[i], version)
             g == storeGet(H)
             h2 == setProperty(g.h, g.a, MIGRATION_KEY, 1, Num(pending[i].version))
         IN IF H.err # "" THEN H
            ELSE IF i = cut THEN [H EXCEPT !.err = how]
            ELSE MigrateCut(storeSet([H EXCEPT !.heap = h2], g.a),
                            pending, i + 1, pending[i].version, cut, how)

\* BaseConf.migrate interrupted in the cut-th pending migration
migrateCut(M, migs, cut, how) ==
    LET version == get(M, MIGRATION_KEY, Num(0)).n
    IN MigrateCut(M, Pending(SortByVersion(migs), version), 1, version, cut, how)

\* new BaseConf({schema, defaults, migrations}) interrupted in the cut-th
\* pending migration
constructorCut(d, schema, defaults, migs, cut, how) ==
    migrateCut(constructor(d, schema, defaults, << >>), migs, cut, how)

-----------------------------------------------------------------------------
(* Object identities are not observable: after every call the unreachable  *)
(* objects are dropped and the live ones renumbered in traversal order.     *)

KeyOrder == <<INTERNAL_KEY, "migrationVersion", "foo", "bar", "baz">>

InSeq(x, sq) == \E j \in 1..Len(sq) : sq[j] = x

IndexOf(x, sq) == IF x = 0 THEN 0 ELSE CHOOSE j \in 1..Len(sq) : sq[j] = x

RECURSIVE Visit(_, _, _)
RECURSIVE VisitKeys(_, _, _, _)
Visit(h, ord, v) ==
    IF ~(isObject(v) /\ v.n # 0) \/ InSeq(v.n, ord) THEN ord
    ELSE VisitKeys(h, Append(ord, v.n), v.n, 1)

VisitKeys(h, ord, a, j) ==
    IF j > Len(KeyOrder) THEN ord
    ELSE VisitKeys(h, Visit(h, ord, Prop(h[a], KeyOrder[j])), a, j + 1)

RECURSIVE VisitAll(_, _, _, _)
VisitAll(h, ord, vs, j) ==
    IF j > Len(vs) THEN ord ELSE VisitAll(h, Visit(h, ord, vs[j]), vs, j + 1)

Rename(ord, v) == IF isObject(v) /\ v.n # 0 THEN Ref(IndexOf(v.n, ord)) ELSE v

\* the machine with its live objects renumbered
Collect(M) ==
    LET roots == <<Ref(M.root), Ref(M.defs.a)>> \o [j \in 1..Len(M.subs) |-> M.subs[j].cur]
        ord == VisitAll(M.heap, << >>, roots, 1)
    IN [M EXCEPT
          !.heap = [a \in 1..Len(ord) |->
                      [k \in DOMAIN M.heap[ord[a]] |-> Rename(ord, M.heap[ord[a]][k])]],
          !.root = IndexOf(M.root, ord),
          !.defs = [keys |-> M.defs.keys, a |-> IndexOf(M.defs.a, ord)],
          !.subs = [j \in 1..Len(M.subs) |-> [M.subs[j] EXCEPT !.cur = Rename(ord, @)]]]

-----------------------------------------------------------------------------
(* Inputs of the calls: the keys and values of the test suite and README.  *)

MaxSubs == 1

MaxMigs == 2

MaxBulk == 2

\* requests sent and not yet handled
MaxQueue == 2

\* subscriptions whose unsubscribe function the caller keeps
MaxHandles == 2

P_foo == <<"foo">>

P_bar == <<"bar">>

P_baz == <<"bar", "baz">>

\* the keys a caller reads
Keys == {P_foo, P_bar, P_baz, <<INTERNAL_KEY>>, MIGRATION_KEY}

\* expected.repeat(4) of the schema test: longer than MaxLength
LongString == "foofoofoofoo"

Baz(i) == Obj([k \in {"baz"} |-> Num(i)])

Arg(key, val) == [key |-> key, val |-> val]

\* the (key, value) arguments of set
SetArgs ==
    { Arg(P_foo, Str("foo")), Arg(P_foo, Str(LongString)), Arg(P_foo, Null),
      Arg(P_bar, Baz(1)), Arg(P_baz, Num(0)), Arg(P_baz, Num(100)) }

\* the mappings of the bulk form, as their entries in Object.entries order
Mappings(entries) ==
    { pairs \in UNION {[1..n -> entries] : n \in 0..MaxBulk} :
        \A i, j \in DOMAIN pairs : i # j => pairs[i].key # pairs[j].key }

BulkArgs == Mappings({Arg(P_foo, Str("foo")), Arg(P_bar, Baz(1)), Arg(P_baz, Num(0))})

DeleteArgs == {P_foo, P_bar, P_baz}

ResetArgs == {<<P_foo>>, <<P_bar>>, <<P_baz>>, <<P_foo, P_bar>>}

NoDefaults == [given |-> FALSE, keys |-> << >>, f |-> NoFields]

Defaults(keys, f) == [given |-> TRUE, keys |-> keys, f |-> f]

\* the defaults option
DefaultsArgs ==
    { NoDefaults,
      Defaults(<<"foo">>, [k \in {"foo"} |-> Str("bar")]),
      Defaults(<<"bar">>, [k \in {"bar"} |-> Baz(100)]),
      Defaults(<<"foo", "bar">>, [k \in {"foo", "bar"} |-> IF k = "foo" THEN Null ELSE Baz(1)]) }

\* the defaults declared by a schema that is the schema of the test suite
\* with `default: 'bar'` added to the property foo
DeclaredFoo == [k \in {"foo"} |-> Str("bar")]

\* the first migration of the test suite: version 1 sets foo
Migrations1 == [version |-> 1, key |-> <<"foo">>, val |-> Str("foo")]

\* the second: version 2 sets bar.baz
Migrations2 == [version |-> 2, key |-> <<"bar", "baz">>, val |-> Num(0)]

\* a migration with the version of the first and another hook
Migrations1b == [version |-> 1, key |-> <<"bar", "baz">>, val |-> Num(1)]

\* lists of migrations, in and out of order, one of them with two entries
\* of the same version
InterruptArgs ==
    { <<Migrations1, Migrations2>>, <<Migrations2, Migrations1>>,
      <<Migrations1, Migrations1b>>, <<Migrations1b, Migrations2>> }

\* the migrations of the test suite, and one that writes foo again, with a
\* value the schema rejects; a hook is given by the one set it makes
Migrations ==
    { [version |-> 1, key |-> P_foo, val |-> Str("foo")],
      [version |-> 2, key |-> P_baz, val |-> Num(0)],
      [version |-> 3, key |-> P_foo, val |-> Str(LongString)] }

\* the migrations option: lists of distinct migrations, in any order
MigrationArgs ==
    { migs \in UNION {[1..n -> Migrations] : n \in 0..MaxMigs} :
        \A i, j \in DOMAIN migs : i # j => migs[i] # migs[j] }

\* mappings that write a dot-path first: one that is accepted, one whose
\* second value the schema rejects, one whose second value has a banned type
NestedBulkArgs ==
    { <<Arg(P_baz, Num(0)), Arg(P_foo, Str("foo"))>>,
      <<Arg(P_baz, Num(0)), Arg(P_foo, Str(LongString))>>,
      <<Arg(P_baz, Num(0)), Arg(P_foo, Fun)>> }

\* the writes of a user between two constructions: a change of foo and
\* attempts on the reserved key
UserArgs ==
    { Arg(P_foo, Str("bar")), Arg(MIGRATION_KEY, Num(99)), Arg(MIGRATION_KEY, Undef) }

\* a mapping whose first key is the reserved one
ReservedBulkArgs ==
    { <<Arg(<<INTERNAL_KEY>>, Obj(NoFields)), Arg(P_foo, Str("bar"))>> }

-----------------------------------------------------------------------------
(* The calls.                                                               *)

\* the machine record of the current state
Now ==
    [heap |-> heap, root |-> root, defs |-> defs, schemaOn |-> schemaOn, disk |-> disk,
     subs |-> subs, calls |-> << >>, writes |-> 0, events |-> 0, hooks |-> << >>,
     reads |-> 0, err |-> ""]

\* the cached document by value
Doc == Snapshot(heap, Ref(root))

\* the options of an instance: schema, whether a schema is given; declared,
\* the defaults the given schema declares with the keyword `default`
NoOpts == [schema |-> FALSE, defaults |-> NoDefaults, migs |-> << >>, declared |-> NoFields]

\* the arguments of ipcRenderer.invoke(channel, action, key, value): key is
\* a path (get, set, has, delete), the mapping of a bulk set (pairs) or the
\* array of the keys of reset (keys)
Request(action, key, val, pairs, keys) ==
    [action |-> action, key |-> key, val |-> val, pairs |-> pairs, keys |-> keys]

\* no request has been handled by the call
NoTwin ==
    [req |-> Request("", << >>, Undef, << >>, << >>), older |-> 0,
     got |-> Undef, res |-> Undef, err |-> "", doc |-> Undef]

\* what a call leaves to observe: its arguments, its outcome, and the cached
\* document (of the last instance, when there is none), the file and the
\* flag threw as they were before it
Observed(op, keys, vals, opts, M) ==
    [op |-> op, keys |-> keys, vals |-> vals, opts |-> opts, err |-> M.err,
     calls |-> M.calls, writes |-> M.writes, events |-> M.events, hooks |-> M.hooks,
     reads |-> M.reads, twin |-> NoTwin,
     pre |-> IF up THEN Doc ELSE last.pre, preDisk |-> disk, preThrew |-> threw]

\* no write is in progress
NoWrite ==
    [pc |-> "idle", direct |-> FALSE, old |-> [exists |-> FALSE, doc |-> Undef], code |-> ""]

\* the state a call leaves behind
Install(M, obs) ==
    LET C == Collect(M)
    IN /\ heap' = C.heap
       /\ root' = C.root
       /\ defs' = C.defs
       /\ disk' = C.disk
       /\ subs' = C.subs
       /\ schemaOn' = C.schemaOn
       /\ last' = obs

\* a call on the instance returns or throws
Call(M, obs) ==
    /\ Install(M, obs)
    /\ threw' = (threw \/ M.err # "")
    /\ io' = NoWrite
    /\ UNCHANGED <<up, options, ipc, handles, peer>>

RECURSIVE ImportEntries(_, _, _)
\* the values of a mapping literal, allocated in order
ImportEntries(h, pairs, i) ==
    IF i > Len(pairs) THEN [h |-> h, pairs |-> pairs]
    ELSE LET v == Import(h, pairs[i].val)
         IN ImportEntries(v.h, [pairs EXCEPT ![i].val = v.v], i + 1)

Construct(schema, defaults, migs) ==
    /\ ~up
    /\ LET M == constructor(disk, schema, defaults, migs)
           obs == Observed("construct", << >>, << >>,
                           [schema |-> schema, defaults |-> defaults, migs |-> migs,
                            declared |-> NoFields], M)
       IN IF M.err = ""
          THEN up' = TRUE /\ threw' = FALSE /\ options' = obs.opts /\ Install(M, obs)
          ELSE UNCHANGED <<up, threw, options>> /\ Install(NoStore(M.disk), obs)
    /\ io' = NoWrite
    /\ UNCHANGED <<ipc, handles, peer>>

\* new BaseConf({schema, defaults}) with a schema that declares defaults:
\* the schema is compiled by new Ajv({allErrors: true}), without the option
\* useDefaults, so the keyword `default` is an annotation the validator
\* ignores, and defaultValues is assigned from the defaults option only
ConstructSchema(declared, defaults) ==
    /\ ~up
    /\ LET M == constructor(disk, TRUE, defaults, << >>)
           obs == Observed("construct", << >>, << >>,
                           [schema |-> TRUE, defaults |-> defaults, migs |-> << >>,
                            declared |-> declared], M)
       IN IF M.err = ""
          THEN up' = TRUE /\ threw' = FALSE /\ options' = obs.opts /\ Install(M, obs)
          ELSE UNCHANGED <<up, threw, options>> /\ Install(NoStore(M.disk), obs)
    /\ io' = NoWrite
    /\ UNCHANGED <<ipc, handles, peer>>

\* a construction that is interrupted during a migration: no instance
\* comes to exist, the file keeps what was written
ConstructInterrupted(migs, cut, how) ==
    /\ ~up
    /\ LET M == constructorCut(disk, FALSE, NoDefaults, migs, cut, how)
           obs == Observed("construct", << >>, << >>,
                           [schema |-> FALSE, defaults |-> NoDefaults, migs |-> migs,
                            declared |-> NoFields], M)
       IN /\ M.err = how
          /\ Install(NoStore(M.disk), obs)
    /\ io' = NoWrite
    /\ UNCHANGED <<up, threw, options, ipc, handles, peer>>

\* the process ends; the file stays
Close ==
    /\ up
    /\ up' = FALSE
    /\ io' = NoWrite
    /\ UNCHANGED <<threw, options, ipc, handles, peer>>
    /\ Install(NoStore(disk), Observed("close", << >>, << >>, NoOpts, Now))

Set(key, val) ==
    /\ up
    /\ LET v == Import(heap, val)
           M == set([Now EXCEPT !.heap = v.h], key, v.v)
       IN Call(M, Observed("set", <<key>>, <<val>>, NoOpts, M))

SetObject(pairs) ==
    /\ up
    /\ LET v == ImportEntries(heap, pairs, 1)
           M == setObject([Now EXCEPT !.heap = v.h], v.pairs)
       IN Call(M, Observed("setObject", [j \in 1..Len(pairs) |-> pairs[j].key],
                           [j \in 1..Len(pairs) |-> pairs[j].val], NoOpts, M))

Delete(key) ==
    /\ up
    /\ LET M == delete(Now, key)
       IN Call(M, Observed("delete", <<key>>, << >>, NoOpts, M))

Reset(keys) ==
    /\ up
    /\ LET M == reset(Now, keys, 1)
       IN Call(M, Observed("reset", keys, << >>, NoOpts, M))

Clear ==
    /\ up
    /\ LET M == clear(Now)
       IN Call(M, Observed("clear", << >>, << >>, NoOpts, M))

\* A second instance on the same file.  Each instance has its own _store
\* and defaultValues; the file is the only thing the two share.

\* the machine record of the second instance, on the file as it is now
PeerNow ==
    [NoStore(disk) EXCEPT !.heap = peer.heap, !.root = peer.root, !.defs = peer.defs]

\* the cached document of the second instance, by value
PeerDoc == Snapshot(peer.heap, Ref(peer.root))

\* what a call on the second instance leaves behind: its own fields and
\* the file; the first instance keeps its fields
InstallPeer(M, obs) ==
    LET C == Collect(M)
    IN /\ peer' = [up |-> TRUE, heap |-> C.heap, root |-> C.root, defs |-> C.defs]
       /\ disk' = C.disk
       /\ last' = [obs EXCEPT !.pre = PeerDoc]
       /\ io' = NoWrite
       /\ UNCHANGED <<up, heap, root, defs, schemaOn, subs, options, threw, ipc, handles>>

\* new BaseConf({defaults}) a second time, on the file as it is now
ConstructPeer(defaults) ==
    /\ ~peer.up
    /\ LET M == constructor(disk, FALSE, defaults, << >>)
       IN InstallPeer(M, Observed("peerConstruct", << >>, << >>,
                                  [NoOpts EXCEPT !.defaults = defaults], M))

\* set(key, val) on the second instance
PeerSet(key, val) ==
    /\ peer.up
    /\ LET v == Import(peer.heap, val)
           M == set([PeerNow EXCEPT !.heap = v.h], key, v.v)
       IN InstallPeer(M, Observed("peerSet", <<key>>, <<val>>, NoOpts, M))

\* delete(key) on the second instance
PeerDelete(key) ==
    /\ peer.up
    /\ LET M == delete(PeerNow, key)
       IN InstallPeer(M, Observed("peerDelete", <<key>>, << >>, NoOpts, M))

\* The file write of the store setter, step by step.  BaseConf.write takes
\* the direct path fs.writeFileSync when process.env.SNAP is set or when
\* atomicWriteFileSync fails with EXDEV, and atomicWriteFileSync otherwise.

\* a file of length 0
EmptyFile == Str("")

\* a proper non-empty prefix of the text of doc
Torn(doc) == [doc EXCEPT !.t = "torn"]

\* a file holds a whole serialized document
Complete(d) == d.exists => isObject(d.doc)

\* an atomic write that writes the target in place
TempWrite_inplace(d) == [exists |-> TRUE, doc |-> EmptyFile]

\* atomicWriteFileSync, first part: the data go to a temporary file next
\* to the target, which stays as it is
TempWrite(d) == d

\* fs.writeFileSync, first part: open with flag 'w' creates or truncates
OpenTruncate(d) == [exists |-> TRUE, doc |-> EmptyFile]

\* a catch branch that falls back on every error
Caught_any(code) == TRUE

\* the catch around atomicWriteFileSync: (error as any)?.code === 'EXDEV'
Caught(code) == code = "EXDEV"

\* errors of the file system other than EXDEV: permission denied, disk full
OtherErrors == {"EACCES", "ENOSPC"}

\* set(key, value) whose write throws: the copy of the store was changed,
\* the document validated, and the store setter is left before it assigns
\* this._store and dispatches
setUnwritten(M, key, value) ==
    LET g == storeGet(M)
    IN [setEntries([M EXCEPT !.heap = g.h], g.a, <<[key |-> key, val |-> value]>>, 1)
          EXCEPT !.err = "io"]

\* set(key, val) has validated the new document and enters BaseConf.write
WriteBegin(key, val, snap) ==
    /\ up
    /\ io.pc = "idle"
    /\ LET v == Import(heap, val)
           M == set([Now EXCEPT !.heap = v.h], key, v.v)
       IN /\ M.err = ""
          /\ io' = [pc |-> IF snap THEN "open" ELSE "temp", direct |-> snap, old |-> disk,
                    code |-> "", M |-> M, F |-> setUnwritten([Now EXCEPT !.heap = v.h], key, v.v),
                    obs |-> Observed("set", <<key>>, <<val>>, NoOpts, M)]
    /\ UNCHANGED <<up, heap, root, defs, schemaOn, disk, subs, options, threw, last, ipc, handles, peer>>

\* atomicWriteFileSync has written the temporary file
TempWritten ==
    /\ io.pc = "temp"
    /\ io' = [io EXCEPT !.pc = "rename"]
    /\ disk' = TempWrite(disk)
    /\ UNCHANGED <<up, heap, root, defs, schemaOn, subs, options, threw, last, ipc, handles, peer>>

\* the rename replaces the target in one step; write returns, the setter
\* replaces the cache and dispatches
Renamed ==
    /\ io.pc = "rename"
    /\ Call(io.M, io.obs)

\* the rename fails with EXDEV: the catch branch writes directly
RenameEXDEV ==
    /\ io.pc = "rename"
    /\ Caught("EXDEV")
    /\ io' = [io EXCEPT !.pc = "open", !.direct = TRUE, !.code = "EXDEV"]
    /\ UNCHANGED <<up, heap, root, defs, schemaOn, disk, subs, options, threw, last, ipc, handles, peer>>

\* fs.writeFileSync has opened the target
Opened ==
    /\ io.pc = "open"
    /\ io' = [io EXCEPT !.pc = "truncated"]
    /\ disk' = OpenTruncate(disk)
    /\ UNCHANGED <<up, heap, root, defs, schemaOn, subs, options, threw, last, ipc, handles, peer>>

\* fs.writeFileSync has written a part of the data
PartWritten ==
    /\ io.pc = "truncated"
    /\ io' = [io EXCEPT !.pc = "torn"]
    /\ disk' = [exists |-> TRUE, doc |-> Torn(io.M.disk.doc)]
    /\ UNCHANGED <<up, heap, root, defs, schemaOn, subs, options, threw, last, ipc, handles, peer>>

\* fs.writeFileSync has written the rest; write returns, the setter
\* replaces the cache and dispatches
Written ==
    /\ io.pc \in {"truncated", "torn"}
    /\ Call(io.M, io.obs)

\* the error leaves write, the store setter and set; io.code keeps its code
Throw(code) ==
    /\ Install([io.F EXCEPT !.disk = disk],
               [io.obs EXCEPT !.err = "io", !.writes = 0, !.events = 0, !.calls = << >>])
    /\ threw' = TRUE
    /\ io' = [NoWrite EXCEPT !.code = code]
    /\ UNCHANGED <<up, options, ipc, handles, peer>>

\* atomicWriteFileSync throws an error other than EXDEV, while it writes
\* the temporary file or renames it: the catch branch rethrows
AtomicThrows(code) ==
    /\ io.pc \in {"temp", "rename"}
    /\ IF Caught(code)
       THEN /\ io' = [io EXCEPT !.pc = "open", !.direct = TRUE, !.code = code]
            /\ UNCHANGED <<up, heap, root, defs, schemaOn, disk, subs, options, threw,
                           last, ipc, handles, peer>>
       ELSE Throw(code)

\* fs.writeFileSync throws when it opens the target, with SNAP set or in
\* the catch branch: nothing catches it
DirectThrows(code) ==
    /\ io.pc = "open"
    /\ Throw(code)

\* the process dies inside write: the file stays as it is
Crash ==
    /\ io.pc \in {"temp", "rename", "open", "truncated", "torn"}
    /\ up' = FALSE
    /\ io' = [io EXCEPT !.pc = "crashed"]
    /\ Install(NoStore(disk), Observed("crash", << >>, << >>, NoOpts, Now))
    /\ UNCHANGED <<threw, options, ipc, handles, peer>>

\* The caller assigns into objects it holds.

\* const s = conf.store; s.foo = val, or s.bar.baz = val when s.bar is an object
MutateStore(path, val) ==
    /\ up
    /\ LET g == storeGet(Now)
           parent == SubSeq(path, 1, Len(path) - 1)
       IN /\ IF Len(path) = 1 THEN TRUE
             ELSE isObject(getProperty(g.h, g.a, parent, 1, Undef))
          /\ LET M == [Now EXCEPT !.heap = setProperty(g.h, g.a, path, 1, val)]
             IN Call(M, Observed("mutateStore", <<path>>, <<val>>, NoOpts, M))

\* const o = conf.get(key); o[prop] = val, when o is an object
MutateGet(key, prop, val) ==
    /\ up
    /\ LET o == get(Now, key, Undef)
       IN /\ isObject(o)
          /\ LET M == [Now EXCEPT !.heap[o.n] = PutKey(@, prop, val)]
             IN Call(M, Observed("mutateGet", <<key>>, <<val>>, NoOpts, M))

\* conf.set(key, v); v[prop] = val: set has stored the reference v itself,
\* which is therefore the object the document holds at key
MutateValue(prop, val) ==
    /\ up
    /\ last.op = "set"
    /\ last.err = ""
    /\ isObject(last.vals[1])
    /\ LET v == getProperty(heap, root, last.keys[1], 1, Undef)
           M == [Now EXCEPT !.heap[v.n] = PutKey(@, prop, val)]
       IN Call(M, Observed("mutateValue", last.keys, <<val>>, NoOpts, M))

\* another program replaces the content of the file
ExternalWrite(doc) ==
    /\ up
    /\ disk.exists
    /\ disk.doc # doc
    /\ LET M == [Now EXCEPT !.disk = [exists |-> TRUE, doc |-> doc]]
       IN Call(M, Observed("external", << >>, <<doc>>, NoOpts, M))

\* The renderer proxy.  A method of the renderer Conf sends one request
\* (action, key, value) with ipcRenderer.invoke; the listener registered by
\* registerRendererListener handles the requests one by one.

\* a method of BaseConf called in the main process with the arguments of
\* the renderer method: the machine it leaves and the value it returns
method(M, r) ==
    CASE r.action = "get" -> [M |-> M, res |-> Snapshot(M.heap, get(M, r.key, r.val))]
      [] r.action = "has" -> [M |-> M, res |-> has(M, r.key)]
      [] r.action = "set" -> [M |-> set(M, r.key, r.val), res |-> Undef]
      [] r.action = "setObject" -> [M |-> setObject(M, r.pairs), res |-> Undef]
      [] r.action = "reset" -> [M |-> reset(M, r.keys, 1), res |-> Undef]
      [] r.action = "delete" -> [M |-> delete(M, r.key), res |-> Undef]
      [] r.action = "clear" -> [M |-> clear(M), res |-> Undef]

\* this.reset(key) in the listener, key being the array of keys the
\* renderer sent: reset loops over one "key", the array.  defaultValues[key]
\* is the default of the only key when the array has one, as a property
\* name is made of the array by joining; set(key, value) then takes the
\* array for a mapping and sets each index to the key's name.
handleReset(M, keys) ==
    LET dv == IF Len(keys) = 1 /\ Len(keys[1]) = 1
              THEN Prop(M.heap[M.defs.a], keys[1][1]) ELSE Undef
        c == deepCloneObject(M.heap, dv)
    IN IF c.v.t \in {"undefined", "null"} THEN M
       ELSE setObject([M EXCEPT !.heap = c.h],
                      <<[key |-> <<"0">>, val |-> Str(keys[1][1])]>>)

\* the listener of registerRendererListener applied to a request
handler(M, r) ==
    IF r.action = "reset" THEN [M |-> handleReset(M, r.keys), res |-> Undef]
    ELSE method(M, r)

\* a listener that takes the newest request
NextRequest_newest(q) == Len(q)

\* the request handled next: the oldest
NextRequest(q) == 1

\* a method of the renderer Conf: ipcRenderer.invoke(channel, action, key, value)
Send(r) ==
    /\ up
    /\ Len(ipc) < MaxQueue
    /\ ipc' = Append(ipc, r)
    /\ UNCHANGED <<up, heap, root, defs, schemaOn, disk, subs, options, threw, last, io,
                   handles, peer>>

\* the listener handles a request and the promise of the renderer settles
Handle ==
    /\ up
    /\ ipc # << >>
    /\ LET i == NextRequest(ipc)
           r == ipc[i]
           v == IF r.action = "set" THEN Import(heap, r.val)
                ELSE [h |-> heap, v |-> r.val]
           e == ImportEntries(v.h, r.pairs, 1)
           a == [r EXCEPT !.val = v.v, !.pairs = e.pairs]
           N == [Now EXCEPT !.heap = e.h]
           H == handler(N, a)
           D == method(N, a)
           obs == [Observed("handle", r.key, <<r.val>>, NoOpts, H.M)
                     EXCEPT !.twin = [req |-> r, older |-> i - 1,
                                      got |-> H.res, res |-> D.res,
                                      err |-> D.M.err,
                                      doc |-> Snapshot(D.M.heap, Ref(D.M.root))]]
       IN /\ Install(H.M, obs)
          /\ ipc' = [j \in 1..(Len(ipc) - 1) |-> IF j < i THEN ipc[j] ELSE ipc[j + 1]]
          /\ threw' = (threw \/ H.M.err # "")
    /\ io' = NoWrite
    /\ UNCHANGED <<up, options, handles, peer>>

\* onDidAnyChange (kind "any") and onDidChange(key) (kind "key"):
\* handleChange captures getter() and adds the listener
Subscribe(kind, key) ==
    /\ up
    /\ Len(subs) < MaxSubs
    /\ LET sub == [kind |-> kind, key |-> key, cur |-> Undef, seen |-> Undef]
           g == getter(Now, sub)
           M == [Now EXCEPT !.heap = g.h,
                            !.subs = Append(@, [sub EXCEPT !.cur = g.v,
                                                           !.seen = Snapshot(g.h, g.v)])]
       IN Call(M, Observed("subscribe", <<key>>, << >>, NoOpts, M))

\* the function handleChange returns: removeEventListener
Unsubscribe(i) ==
    /\ up
    /\ i \in 1..Len(subs)
    /\ LET M == [Now EXCEPT !.subs = [j \in 1..(Len(subs) - 1) |->
                                         IF j < i THEN subs[j] ELSE subs[j + 1]]]
       IN Call(M, Observed("unsubscribe", << >>, << >>, NoOpts, M))

\* removeEventListener of a listener that is the first registered
removeEventListener_first(listeners, id) ==
    IF listeners = << >> THEN listeners ELSE Tail(listeners)

\* events.removeEventListener('change', onChange): the listener of the
\* subscription leaves the list, if it is in it; the others keep their order
removeEventListener(listeners, id) == SelectSeq(listeners, LAMBDA l : l.id # id)

\* onDidAnyChange or onDidChange(key) by a caller that keeps the unsubscribe
\* function it returns: the subscriptions of such callers are numbered
SubscribeKept(kind, key) ==
    /\ up
    /\ handles < MaxHandles
    /\ LET sub == [kind |-> kind, key |-> key, cur |-> Undef, seen |-> Undef,
                   id |-> handles + 1]
           g == getter(Now, sub)
           M == [Now EXCEPT !.heap = g.h,
                            !.subs = Append(@, [sub EXCEPT !.cur = g.v,
                                                           !.seen = Snapshot(g.h, g.v)])]
       IN Install(M, Observed("subscribe", <<key>>, <<Num(handles + 1)>>, NoOpts, M))
    /\ handles' = handles + 1
    /\ threw' = threw
    /\ io' = NoWrite
    /\ UNCHANGED <<up, options, ipc, peer>>

\* the caller calls the unsubscribe function of subscription id, for the
\* first time or again
UnsubscribeKept(id) ==
    /\ up
    /\ id \in 1..handles
    /\ LET M == [Now EXCEPT !.subs = removeEventListener(subs, id)]
       IN Install(M, Observed("unsubscribe", << >>, <<Num(id)>>, NoOpts, M))
    /\ threw' = threw
    /\ io' = NoWrite
    /\ UNCHANGED <<up, options, ipc, handles, peer>>

-----------------------------------------------------------------------------
(* Specifications.                                                          *)

NoFile == [exists |-> FALSE, doc |-> Undef]

NoCall ==
    [op |-> "none", keys |-> << >>, vals |-> << >>, opts |-> NoOpts, err |-> "",
     calls |-> << >>, writes |-> 0, events |-> 0, hooks |-> << >>, reads |-> 0,
     twin |-> NoTwin, pre |-> Undef, preDisk |-> NoFile, preThrew |-> FALSE]

\* no file and no store yet
Init ==
    /\ up = FALSE
    /\ heap = << >>
    /\ root = 0
    /\ defs = [keys |-> << >>, a |-> 0]
    /\ schemaOn = FALSE
    /\ disk = NoFile
    /\ subs = << >>
    /\ options = NoOpts
    /\ threw = FALSE
    /\ last = NoCall
    /\ io = NoWrite
    /\ ipc = << >>
    /\ handles = 0
    /\ peer = NoPeer

\* the store operations, on stores with and without a schema and defaults
Next ==
    \/ \E schema \in BOOLEAN, defaults \in DefaultsArgs : Construct(schema, defaults, << >>)
    \/ Close
    \/ \E a \in SetArgs : Set(a.key, a.val)
    \/ \E pairs \in BulkArgs : SetObject(pairs)
    \/ \E key \in DeleteArgs : Delete(key)
    \/ \E keys \in ResetArgs : Reset(keys)
    \/ Clear

Spec == Init /\ [][Next]_vars

\* the state new BaseConf({schema, defaults, migrations}) leaves on no file
Built(schema, defaults, migs) ==
    LET M == constructor(NoFile, schema, defaults, migs)
        C == Collect(M)
        opts == [schema |-> schema, defaults |-> defaults, migs |-> migs,
                 declared |-> NoFields]
    IN /\ up = TRUE
       /\ heap = C.heap
       /\ root = C.root
       /\ defs = C.defs
       /\ schemaOn = C.schemaOn
       /\ disk = C.disk
       /\ subs = C.subs
       /\ options = opts
       /\ threw = FALSE
       /\ last = [NoCall EXCEPT !.op = "construct", !.opts = opts, !.writes = M.writes,
                                !.events = M.events, !.hooks = M.hooks,
                                !.reads = M.reads]
       /\ io = NoWrite
       /\ ipc = << >>
       /\ handles = 0
       /\ peer = NoPeer

\* a store with the schema of the test suite and the default bar = {baz: 1}
InitSubs == Built(TRUE, Defaults(<<"bar">>, [k \in {"bar"} |-> Baz(1)]), << >>)

\* writes and subscriptions on that store
NextSubs ==
    \/ \E a \in SetArgs : Set(a.key, a.val)
    \/ \E pairs \in NestedBulkArgs : SetObject(pairs)
    \/ \E key \in DeleteArgs : Delete(key)
    \/ Reset(<<P_bar>>)
    \/ Clear
    \/ \E key \in {P_foo, P_bar, P_baz} : Subscribe("key", key)
    \/ Subscribe("any", << >>)
    \/ \E i \in 1..MaxSubs : Unsubscribe(i)

SpecSubs == InitSubs /\ [][NextSubs]_vars

\* constructions with migrations on the file earlier instances left, and
\* the writes of a user in between
NextMig ==
    \/ \E schema \in BOOLEAN, migs \in MigrationArgs :
          Construct(schema, Defaults(<<"foo">>, [k \in {"foo"} |-> Str("bar")]), migs)
    \/ Close
    \/ \E a \in UserArgs : Set(a.key, a.val)
    \/ \E pairs \in ReservedBulkArgs : SetObject(pairs)

SpecMig == Init /\ [][NextMig]_vars

\* writes to and around the reserved namespace by user code
ReservedSetArgs ==
    { Arg(<<INTERNAL_KEY>>, Obj(NoFields)), Arg(MIGRATION_KEY, Num(0)),
      Arg(P_foo, Str("bar")) }

\* a mapping in which the reserved name is not the first key
ReservedLaterArgs ==
    { <<Arg(P_foo, Str("bar")), Arg(<<INTERNAL_KEY>>, Obj(NoFields))>> }

\* constructions with the migrations of the test suite, and every public
\* operation aimed at the reserved namespace
NextReserved ==
    \/ \E migs \in {<<Migrations1>>, <<Migrations1, Migrations2>>},
          defaults \in {NoDefaults, Defaults(<<"foo">>, [k \in {"foo"} |-> Str("bar")])} :
          Construct(FALSE, defaults, migs)
    \/ Close
    \/ \E a \in ReservedSetArgs : Set(a.key, a.val)
    \/ \E pairs \in ReservedBulkArgs \cup ReservedLaterArgs : SetObject(pairs)
    \/ \E key \in {<<INTERNAL_KEY>>, MIGRATION_KEY, P_foo} : Delete(key)
    \/ Reset(<<P_foo>>)
    \/ Clear

SpecReserved == Init /\ [][NextReserved]_vars

\* what the caller assigns
Five == Num(5)

\* the sets of the caller
CallerSetArgs == { Arg(P_bar, Baz(1)), Arg(P_baz, Num(0)), Arg(P_foo, Str("foo")) }

\* a caller that assigns into the objects the store handed out or was
\* handed, and another program that writes the file
NextCaller ==
    \/ Construct(FALSE, Defaults(<<"bar">>, [k \in {"bar"} |-> Baz(1)]), << >>)
    \/ Close
    \/ \E a \in CallerSetArgs : Set(a.key, a.val)
    \/ \E path \in {P_foo, P_baz} : MutateStore(path, Five)
    \/ MutateGet(P_bar, "baz", Five)
    \/ MutateValue("baz", Five)
    \/ \E doc \in {Obj(NoFields), Obj([k \in {"foo"} |-> Str("bar")])} : ExternalWrite(doc)

SpecCaller == Init /\ [][NextCaller]_vars

\* an absent key and the default the renderer of the test suite asks for
P_zoo == <<"zoo">>

\* the requests of the renderer: those of the test suite and one of each
\* method
Requests ==
    { Request("setObject", << >>, Undef, <<Arg(P_bar, Baz(1))>>, << >>),
      Request("get", P_zoo, Str("zoo"), << >>, << >>),
      Request("get", P_baz, Undef, << >>, << >>),
      Request("set", P_baz, Num(0), << >>, << >>),
      Request("has", P_baz, Undef, << >>, << >>),
      Request("delete", P_bar, Undef, << >>, << >>),
      Request("clear", << >>, Undef, << >>, << >>),
      Request("reset", << >>, Undef, << >>, <<P_bar>>),
      Request("reset", << >>, Undef, << >>, <<P_foo, P_bar>>) }

\* a main-process store with defaults for foo and bar
InitProxy ==
    Built(FALSE, Defaults(<<"foo", "bar">>,
                          [k \in {"foo", "bar"} |-> IF k = "foo" THEN Str("bar") ELSE Baz(100)]),
          << >>)

\* a renderer sending requests and the listener handling them
NextProxy ==
    \/ \E r \in Requests : Send(r)
    \/ Handle

SpecProxy == InitProxy /\ [][NextProxy]_vars

\* stores built with a schema that declares a default for foo, with and
\* without the defaults option, and the calls that restore defaults
NextDeclared ==
    \/ \E defaults \in {NoDefaults, Defaults(<<"bar">>, [k \in {"bar"} |-> Baz(1)])} :
          ConstructSchema(DeclaredFoo, defaults)
    \/ Close
    \/ \E a \in SetArgs : Set(a.key, a.val)
    \/ \E key \in {P_foo, P_bar} : Delete(key)
    \/ \E keys \in {<<P_foo>>, <<P_bar>>, <<P_foo, P_bar>>} : Reset(keys)
    \/ Clear

SpecDeclared == Init /\ [][NextDeclared]_vars

\* constructions with migrations, completed or interrupted in a migration
\* by a throwing hook or by the end of the process, and writes in between
NextInterrupt ==
    \/ \E migs \in InterruptArgs : Construct(FALSE, NoDefaults, migs)
    \/ \E migs \in InterruptArgs, cut \in 1..MaxMigs, how \in {"hook", "crash"} :
          ConstructInterrupted(migs, cut, how)
    \/ Close
    \/ \E key \in {P_foo, P_bar} : Delete(key)

SpecInterrupt == Init /\ [][NextInterrupt]_vars

\* a store with the default bar = {baz: 1}
InitKept == Built(FALSE, Defaults(<<"bar">>, [k \in {"bar"} |-> Baz(1)]), << >>)

\* subscriptions made and ended in any order between writes, also two
\* subscriptions on one key
NextKept ==
    \/ \E key \in {P_foo, P_baz} : SubscribeKept("key", key)
    \/ SubscribeKept("any", << >>)
    \/ \E id \in 1..MaxHandles : UnsubscribeKept(id)
    \/ \E a \in {Arg(P_foo, Str("foo")), Arg(P_baz, Num(0))} : Set(a.key, a.val)
    \/ \E key \in {P_foo, P_bar} : Delete(key)
    \/ Clear

SpecKept == InitKept /\ [][NextKept]_vars

\* the sets of the two instances
PeerSetArgs == { Arg(P_foo, Str("foo")), Arg(P_bar, Baz(0)), Arg(P_baz, Num(0)) }

\* two instances constructed on one file, in either order and before or
\* after the writes of the other, each setting and deleting keys
NextPeer ==
    \/ Construct(FALSE, NoDefaults, << >>)
    \/ \E defaults \in {NoDefaults, Defaults(<<"bar">>, [k \in {"bar"} |-> Baz(1)])} :
          ConstructPeer(defaults)
    \/ \E a \in PeerSetArgs : Set(a.key, a.val)
    \/ \E a \in PeerSetArgs : PeerSet(a.key, a.val)
    \/ Delete(P_foo)
    \/ PeerDelete(P_foo)

SpecPeer == Init /\ [][NextPeer]_vars

\* a store on a file that holds {foo: 'bar'}
InitWrite == Built(FALSE, Defaults(<<"foo">>, [k \in {"foo"} |-> Str("bar")]), << >>)

\* sets, their file writes taken step by step on each path of the writer
NextWrite ==
    \/ \E a \in SetArgs, snap \in BOOLEAN : WriteBegin(a.key, a.val, snap)
    \/ TempWritten
    \/ Renamed
    \/ RenameEXDEV
    \/ Opened
    \/ PartWritten
    \/ Written
    \/ \E code \in OtherErrors : AtomicThrows(code)
    \/ \E code \in OtherErrors : DirectThrows(code)
    \/ Crash

SpecWrite == InitWrite /\ [][NextWrite]_vars

-----------------------------------------------------------------------------
(* What a caller reads.                                                     *)

\* get(key) now, by value
GetNow(key) == Snapshot(heap, get(Now, key, Undef))

\* has(key) now
HasNow(key) == has(Now, key)

\* get(key) on a document given by value
GetIn(doc, key) ==
    IF ~isObject(doc) THEN Undef
    ELSE LET r == Import(<< >>, doc) IN Snapshot(r.h, getProperty(r.h, r.v.n, key, 1, Undef))

\* has(key) on a document given by value
HasIn(doc, key) ==
    isObject(doc) /\ LET r == Import(<< >>, doc) IN hasProperty(r.h, r.v.n, key, 1)

\* p is q or an ancestor of q
IsPrefix(p, q) == Len(p) <= Len(q) /\ SubSeq(q, 1, Len(p)) = p

Returned(op) == last.op = op /\ last.err = ""

\* the document set(key, val) produces from a document given by value
SetIn(doc, key, val) ==
    LET r == Import(<< >>, doc)
        v == Import(r.h, val)
    IN Snapshot(setProperty(v.h, r.v.n, key, 1, v.v), r.v)

\* the (newValue, oldValue) pairs the callback of subscription i was called with
CallsOf(i) ==
    LET mine == SelectSeq(last.calls, LAMBDA c : c.sub = i)
    IN [j \in 1..Len(mine) |-> [new |-> mine[j].new, old |-> mine[j].old]]

-----------------------------------------------------------------------------
(* C1: a set that violates the schema.                                      *)

\* C1: on a store with a schema, a set(k, v) whose resulting document
\* violates the schema throws a schema violation, and afterwards get reads
\* every key as before the call, the file is as before and no callback has
\* been invoked.
C1_RejectedSetChangesNothing ==
    (last.op = "set" /\ schemaOn /\ ~validator(SetIn(last.pre, last.keys[1], last.vals[1])))
    => /\ last.err = "schema"
       /\ \A q \in Keys : GetNow(q) = GetIn(last.pre, q)
       /\ disk = last.preDisk
       /\ last.calls = << >>

-----------------------------------------------------------------------------
(* C2: onDidAnyChange.                                                      *)

\* C2, for set and delete: a set or delete that returns invokes the callback
\* of every onDidAnyChange subscription exactly once, with the document
\* after and the document before the write, when the two differ, and not at
\* all when they are deep-equal.
C2_AnyChangeCallback ==
    (Returned("set") \/ Returned("delete")) =>
       \A i \in 1..Len(subs) :
          subs[i].kind = "any" =>
             CallsOf(i) = IF Doc # last.pre THEN <<[new |-> Doc, old |-> last.pre]>>
                          ELSE << >>

-----------------------------------------------------------------------------
(* C3: onDidChange.                                                         *)

\* C3, for set and delete: a set or delete that returns invokes the callback
\* of every onDidChange(k) subscription exactly once, with get(k) after and
\* get(k) before the write, when the two differ, and not at all when they
\* are deep-equal.
C3_KeyChangeCallback ==
    (Returned("set") \/ Returned("delete")) =>
       \A i \in 1..Len(subs) :
          subs[i].kind = "key" =>
             LET new == GetNow(subs[i].key)
                 old == GetIn(last.pre, subs[i].key)
             IN CallsOf(i) = IF new # old THEN <<[new |-> new, old |-> old]>> ELSE << >>

-----------------------------------------------------------------------------
(* C4: set then get.                                                        *)

\* C4 as stated: after a set(k, v) that returns, get(k) is deep-equal to v
\* and has(k) is true; after a bulk set that returns, get(ki) is vi for
\* every entry of the mapping.
C4_Original ==
    /\ Returned("set") => GetNow(last.keys[1]) = last.vals[1] /\ HasNow(last.keys[1])
    /\ Returned("setObject") =>
          \A i \in 1..Len(last.keys) : GetNow(last.keys[i]) = last.vals[i]

\* C4, amended: after a set(k, v) that returns, get(k) is deep-equal to v and
\* has(k) is true; after a bulk set that returns, get(ki) is vi for every
\* entry that no later entry of the mapping overwrites (no later key is ki,
\* an ancestor of ki or a descendant of ki).
C4_SetThenGet ==
    /\ Returned("set") => GetNow(last.keys[1]) = last.vals[1] /\ HasNow(last.keys[1])
    /\ Returned("setObject") =>
          \A i \in 1..Len(last.keys) :
             (\A j \in (i + 1)..Len(last.keys) :
                 ~IsPrefix(last.keys[i], last.keys[j]) /\ ~IsPrefix(last.keys[j], last.keys[i]))
             => GetNow(last.keys[i]) = last.vals[i] /\ HasNow(last.keys[i])

\* a dot-path set into a stored nested object has returned, and a bulk set
\* of two entries on different keys has returned
C4_Witness ==
    \/ /\ Returned("set")
       /\ last.keys[1] = P_baz
       /\ isObject(GetIn(last.pre, P_bar))
       /\ GetIn(last.pre, P_baz) # last.vals[1]
    \/ /\ Returned("setObject")
       /\ Len(last.keys) = 2
       /\ last.keys[1] = P_foo
       /\ Doc # last.pre

-----------------------------------------------------------------------------
(* C5: delete.                                                              *)

Related(p, q) == IsPrefix(p, q) \/ IsPrefix(q, p)

\* C5 as stated: after a delete(k) that returns, get(k) is undefined (or the
\* default supplied), has(k) is false, every key that is neither k nor a
\* descendant of k reads as before, and a delete of a path that did not
\* exist leaves the document as it was.
C5_Original ==
    Returned("delete") =>
       LET k == last.keys[1]
       IN /\ GetNow(k) = Undef
          /\ get(Now, k, Num(7)) = Num(7)
          /\ ~HasNow(k)
          /\ \A q \in Keys : ~IsPrefix(k, q) => GetNow(q) = GetIn(last.pre, q)
          /\ ~HasIn(last.pre, k) => Doc = last.pre

\* C5, amended: as C5, for every key that is neither k, nor a descendant of
\* k, nor an ancestor of k.
C5_Delete ==
    Returned("delete") =>
       LET k == last.keys[1]
       IN /\ GetNow(k) = Undef
          /\ get(Now, k, Num(7)) = Num(7)
          /\ ~HasNow(k)
          /\ \A q \in Keys : ~Related(k, q) =>
                GetNow(q) = GetIn(last.pre, q) /\ HasNow(q) = HasIn(last.pre, q)
          /\ ~HasIn(last.pre, k) => Doc = last.pre

\* a delete of the stored bar.baz has returned, with foo stored beside it
C5_Witness ==
    /\ Returned("delete")
    /\ last.keys[1] = P_baz
    /\ HasIn(last.pre, P_baz)
    /\ HasIn(last.pre, P_foo)

-----------------------------------------------------------------------------
(* C6: clear.                                                               *)

\* the defaults option of the instance, by value
GivenDefaults == options.defaults.f

\* C6 as stated: after a clear() that returns, get(k) is the default of every
\* key k that has an entry in the defaults, and undefined for every key
\* without a default.
C6_Original ==
    Returned("clear") =>
       /\ \A k \in DOMAIN GivenDefaults : GetNow(<<k>>) = GivenDefaults[k]
       /\ \A q \in Keys : GetIn(Obj(GivenDefaults), q) = Undef => GetNow(q) = Undef

\* C6, amended: after a clear() that returns, the document holds exactly the
\* entries of the defaults whose value is not null: get(k) is the default of
\* every key with a non-null default, and undefined for every other key.
C6_Clear ==
    Returned("clear") =>
       /\ Doc = Obj([k \in {x \in DOMAIN GivenDefaults : GivenDefaults[x] # Null} |->
                       GivenDefaults[k]])
       /\ \A k \in DOMAIN GivenDefaults :
             GetNow(<<k>>) = IF GivenDefaults[k] = Null THEN Undef ELSE GivenDefaults[k]
       /\ \A q \in Keys : GetIn(Obj(GivenDefaults), q) = Undef => GetNow(q) = Undef

\* a clear() has returned on a store with a null and a non-null default,
\* whose document held other values for both keys
C6_Witness ==
    /\ Returned("clear")
    /\ "foo" \in DOMAIN GivenDefaults
    /\ GivenDefaults["foo"] = Null
    /\ "bar" \in DOMAIN GivenDefaults
    /\ GetIn(last.pre, P_foo) = Str("foo")
    /\ GetIn(last.pre, P_bar) # GivenDefaults["bar"]

-----------------------------------------------------------------------------
(* C7: reset.                                                               *)

\* the key is a top-level key with a default that is neither absent nor null
HasUsableDefault(key) ==
    /\ Len(key) = 1
    /\ key[1] \in DOMAIN GivenDefaults
    /\ GivenDefaults[key[1]] # Null

\* C7: in the state a reset(k) that returned has left, get(k) is the default
\* of k when k has a non-null default, and a second reset(k) returns and
\* leaves the same document.
C7_ResetIdempotent ==
    Returned("reset") =>
       /\ \A i \in 1..Len(last.keys) :
             HasUsableDefault(last.keys[i]) =>
                GetNow(last.keys[i]) = GivenDefaults[last.keys[i][1]]
       /\ LET M == reset(Now, last.keys, 1)
          IN M.err = "" /\ Snapshot(M.heap, Ref(M.root)) = Doc

\* a reset of bar has returned on a store whose bar differed from its default
C7_Witness ==
    /\ Returned("reset")
    /\ last.keys = <<P_bar>>
    /\ HasUsableDefault(P_bar)
    /\ GetIn(last.pre, P_bar) # GivenDefaults["bar"]
    /\ HasIn(last.pre, P_bar)

-----------------------------------------------------------------------------
(* C8: migrations.                                                          *)

\* the version a file records: __internal__.migrationVersion, 0 if absent
VersionOn(d) ==
    LET v == IF d.exists THEN GetIn(d.doc, MIGRATION_KEY) ELSE Undef
    IN IF v.t = "number" THEN v.n ELSE 0

\* how often m occurs in the sequence sq
Count(sq, m) == Cardinality({j \in DOMAIN sq : sq[j] = m})

\* the greatest of a finite non-empty set of numbers
Max(S) == CHOOSE x \in S : \A y \in S : y <= x

\* the hooks invoked by the last construction, in order
HooksRun == [j \in DOMAIN last.hooks |-> last.hooks[j].m]

\* the first two clauses of C8: no hook of a version <= n is invoked; when
\* the construction returns, every hook of a version > n has been invoked
\* once for each time it is listed, and the recorded version is
\* max(n, highest version listed)
HooksAndVersion ==
    LET n == VersionOn(last.preDisk)
        M == last.opts.migs
    IN /\ \A j \in DOMAIN HooksRun : HooksRun[j].version > n
       /\ last.err = "" =>
            /\ \A m \in Migrations :
                  Count(HooksRun, m) = IF m.version > n THEN Count(M, m) ELSE 0
            /\ GetNow(MIGRATION_KEY) =
                  (IF n = 0 /\ M = << >> THEN GetIn(last.preDisk.doc, MIGRATION_KEY)
                   ELSE Num(Max({n} \cup {M[j].version : j \in DOMAIN M})))

\* C8 as stated: a construction on a file that records version n invokes
\* exactly the hooks of versions > n; when it returns the recorded version
\* is max(n, highest version listed) and every value the file holds at a
\* key written by a listed migration of version <= n, other than the value
\* that migration writes, is read as the file holds it.
C8_Original ==
    last.op = "construct" =>
       /\ HooksAndVersion
       /\ last.err = "" =>
            \A j \in DOMAIN last.opts.migs :
               LET m == last.opts.migs[j]
               IN (/\ m.version <= VersionOn(last.preDisk)
                   /\ HasIn(last.preDisk.doc, m.key)
                   /\ GetIn(last.preDisk.doc, m.key) # m.val)
                  => GetNow(m.key) = GetIn(last.preDisk.doc, m.key)

\* C8, amended: as C8_Original, the value at a key written by a listed
\* migration of version <= n being kept when no listed migration of a
\* version > n writes that key, an ancestor or a descendant of it.
C8_Migrations ==
    last.op = "construct" =>
       /\ HooksAndVersion
       /\ last.err = "" =>
            \A j \in DOMAIN last.opts.migs :
               LET m == last.opts.migs[j]
                   n == VersionOn(last.preDisk)
               IN (/\ m.version <= n
                   /\ HasIn(last.preDisk.doc, m.key)
                   /\ GetIn(last.preDisk.doc, m.key) # m.val
                   /\ \A i \in DOMAIN last.opts.migs :
                         last.opts.migs[i].version > n
                         => ~Related(last.opts.migs[i].key, m.key))
                  => GetNow(m.key) = GetIn(last.preDisk.doc, m.key)

\* a construction on a file that records version 1 has returned: it ran the
\* hook of version 2 and kept the value the user gave to the key the hook of
\* version 1 had written
C8_Witness ==
    /\ Returned("construct")
    /\ VersionOn(last.preDisk) = 1
    /\ HooksRun = <<[version |-> 2, key |-> P_baz, val |-> Num(0)]>>
    /\ \E j \in DOMAIN last.opts.migs :
          /\ last.opts.migs[j] = [version |-> 1, key |-> P_foo, val |-> Str("foo")]
          /\ GetIn(last.preDisk.doc, P_foo) = Str("bar")
    /\ GetNow(P_foo) = Str("bar")
    /\ GetNow(MIGRATION_KEY) = Num(2)

-----------------------------------------------------------------------------
(* C9: persistence round trip.                                              *)

\* C9: a store built with no defaults and no migrations on the file of an
\* instance none of whose calls threw holds a document deep-equal to that
\* instance's document, so that get agrees on every key.
C9_RoundTrip ==
    (/\ Returned("construct")
     /\ ~last.opts.defaults.given
     /\ last.opts.migs = << >>
     /\ last.pre # Undef
     /\ ~last.preThrew)
    => /\ Doc = last.pre
       /\ \A q \in Keys : GetNow(q) = GetIn(last.pre, q)

\* such a store has been built on a file that holds foo and a nested bar
C9_Witness ==
    /\ Returned("construct")
    /\ ~last.opts.defaults.given
    /\ ~last.preThrew
    /\ HasIn(last.pre, P_foo)
    /\ HasIn(last.pre, P_baz)

-----------------------------------------------------------------------------
(* C10: the reserved-key guard.                                             *)

\* C10: set('__internal__.migrationVersion', x) and a bulk set whose
\* mapping has '__internal__' as its first key throw a TypeError, and the
\* recorded version, the document and the file are as before the call.
C10_ReservedKeyGuard ==
    (\/ last.op = "set" /\ last.keys[1] = MIGRATION_KEY
     \/ last.op = "setObject" /\ Len(last.keys) >= 1 /\ last.keys[1] = <<INTERNAL_KEY>>)
    => /\ last.err = "type"
       /\ GetNow(MIGRATION_KEY) = GetIn(last.pre, MIGRATION_KEY)
       /\ Doc = last.pre
       /\ disk = last.preDisk
       /\ last.writes = 0

\* set('__internal__.migrationVersion', 99) has been rejected on a store
\* that records version 2
C10_Witness ==
    /\ last.op = "set"
    /\ last.keys = <<MIGRATION_KEY>>
    /\ last.vals = <<Num(99)>>
    /\ last.err = "type"
    /\ GetNow(MIGRATION_KEY) = Num(2)

-----------------------------------------------------------------------------
(* C11: set and the reserved namespace.                                     *)

\* C11: a set whose key is '__internal__' or starts with '__internal__.',
\* and a bulk set whose mapping has '__internal__' among its keys, throws a
\* TypeError; and no set, single or bulk, changes the value read at
\* '__internal__'.
C11_SetNeverWritesReserved ==
    /\ ((\/ last.op = "set" /\ IsPrefix(<<INTERNAL_KEY>>, last.keys[1])
         \/ last.op = "setObject" /\ \E j \in DOMAIN last.keys : last.keys[j] = <<INTERNAL_KEY>>)
        => last.err = "type")
    /\ (last.op \in {"set", "setObject"}
        => GetNow(<<INTERNAL_KEY>>) = GetIn(last.pre, <<INTERNAL_KEY>>))

-----------------------------------------------------------------------------
(* C12: the recorded migration version.                                     *)

\* C12, for the steps other than set (C11 is about set): no delete, reset,
\* clear or later construction on the file removes '__internal__' from the
\* file or lowers the version the file records.
C12_VersionMonotonic ==
    [][last'.op \in {"delete", "reset", "clear", "construct", "close"}
       => /\ HasIn(disk.doc, <<INTERNAL_KEY>>) => HasIn(disk.doc, <<INTERNAL_KEY>>)'
          /\ VersionOn(disk)' >= VersionOn(disk)]_vars

-----------------------------------------------------------------------------
(* C13: defaults at construction.                                           *)

\* the document of a file: empty when there is no file
FileDoc(d) == IF d.exists THEN d.doc ELSE Obj(NoFields)

\* C13: a construction with defaults that returns leaves the deep merge of
\* the file's document over the defaults: every leaf path of the file reads
\* as in the file, and every leaf path of the defaults that the file lacks,
\* also one under a parent object the file holds, reads as its default.
C13_DefaultsDeepMerge ==
    (Returned("construct") /\ last.opts.defaults.given /\ last.opts.migs = << >>) =>
       \A q \in {P_foo, P_baz} :
          LET file == FileDoc(last.preDisk)
              dflt == Obj(last.opts.defaults.f)
          IN IF HasIn(file, q) THEN GetNow(q) = GetIn(file, q)
             ELSE HasIn(dflt, q) => GetNow(q) = GetIn(dflt, q)

-----------------------------------------------------------------------------
(* C14: the bulk form of set.                                               *)

RECURSIVE ApplyAll(_, _, _, _)
\* the document with the pairs from the i-th on applied in order
ApplyAll(doc, keys, vals, i) ==
    IF i > Len(keys) THEN doc
    ELSE ApplyAll(SetIn(doc, keys[i], vals[i]), keys, vals, i + 1)

\* C14: a bulk set that returns has written the file once and dispatched
\* one event, and after a bulk set, returned or thrown, the document is
\* either the one before the call or that one with all pairs applied, every
\* callback having received the latter as newValue: never a document with
\* only some of the pairs applied.
C14_BulkSetAtomic ==
    last.op = "setObject" =>
       LET all == ApplyAll(last.pre, last.keys, last.vals, 1)
       IN /\ last.err = "" => last.writes = 1 /\ last.events = 1
          /\ Doc = IF last.err = "" THEN all ELSE last.pre
          /\ disk = IF last.err = "" THEN [exists |-> TRUE, doc |-> JsonWrite(all)]
                    ELSE last.preDisk
          /\ \A j \in DOMAIN last.calls :
                subs[last.calls[j].sub].kind = "any" => last.calls[j].new = all

-----------------------------------------------------------------------------
(* C15: atomic persistence.                                                 *)

\* C15 as stated: on every path of the writer, the file holds at every
\* moment, hence for a concurrent reader and after a crash, either the
\* whole document of before the write or the whole new one.
C15_Original ==
    /\ Complete(disk)
    /\ io.pc # "idle" => disk \in {io.old, io.M.disk}

\* C15, amended: the same while the write is on the path of
\* atomicWriteFileSync, that is SNAP is unset and the rename has not failed
\* with EXDEV.
C15_AtomicWrite ==
    ~io.direct =>
       /\ Complete(disk)
       /\ io.pc # "idle" => disk \in {io.old, io.M.disk}

\* an atomic write of a new document is in progress, its temporary file
\* written, on a file that holds another document
C15_Witness ==
    /\ io.pc = "rename"
    /\ ~io.direct
    /\ disk.exists
    /\ disk = io.old
    /\ io.M.disk # disk

-----------------------------------------------------------------------------
(* C16: the objects a caller holds.                                         *)

\* C16: after the caller has assigned, at any depth, into the object the
\* store getter returned, into the object get(k) returned or into the object
\* it had passed to set(k, v), every get and the store getter return what
\* they returned before the assignment.
C16_NoLiveReference ==
    last.op \in {"mutateStore", "mutateGet", "mutateValue"} =>
       /\ Doc = last.pre
       /\ \A q \in Keys : GetNow(q) = GetIn(last.pre, q)

-----------------------------------------------------------------------------
(* C17: the file is read once.                                              *)

-----------------------------------------------------------------------------
(* C18: the renderer proxy and the main-process methods.                    *)

\* C18: a request handled by the listener leaves the document that the
\* main-process method of the same name, called with the arguments the
\* renderer method was called with, leaves, throws when it throws and
\* resolves to what it returns; so a reset of the renderer restores the
\* defaults of its keys and adds no other key.
C18_ProxyParity ==
    last.op = "handle" =>
       /\ Doc = last.twin.doc
       /\ last.err = last.twin.err
       /\ last.twin.got = last.twin.res

-----------------------------------------------------------------------------
(* C19: the order of the requests.                                          *)

\* get(key, dflt) on a document given by value
GetOr(doc, key, dflt) ==
    LET r == Import(<< >>, doc) IN Snapshot(r.h, getProperty(r.h, r.v.n, key, 1, dflt))

-----------------------------------------------------------------------------
(* C20: defaults that violate the schema.                                   *)

\* mergeObject(defaults, fileStore) by value: the properties of the file win
Merged(defaults, d) ==
    LET file == IF d.exists THEN d.doc.f ELSE NoFields
    IN Obj([k \in DOMAIN defaults.f \cup DOMAIN file |->
               IF k \in DOMAIN file THEN file[k] ELSE defaults.f[k]])

\* the construction that has just been attempted had a schema and defaults
\* whose merge with the document of the file violates the schema
DefaultsViolate ==
    /\ last.op = "construct"
    /\ last.opts.schema
    /\ last.opts.defaults.given
    /\ last.preDisk.exists => isObject(last.preDisk.doc)
    /\ ~validator(Merged(last.opts.defaults, last.preDisk))

\* C20: a construction with a schema and defaults whose merge with the
\* loaded document violates the schema throws the schema violation, no
\* store comes to exist, and the file is as before the construction: still
\* absent, or with the document it held, and nothing was written.
C20_InvalidDefaultsThrow ==
    DefaultsViolate =>
       /\ last.err = "schema"
       /\ ~up
       /\ disk = last.preDisk
       /\ last.writes = 0

\* such a construction on a file that holds a valid document
C20_Witness ==
    /\ DefaultsViolate
    /\ last.preDisk.exists
    /\ validator(last.preDisk.doc)
    /\ last.preDisk.doc.f # NoFields

-----------------------------------------------------------------------------
(* C21: a set rejected with a TypeError.                                    *)

\* C21: after a set, of one key or of a mapping, that threw a TypeError
\* (undefined value, reserved key, or a value of a banned type, also after
\* earlier entries of the mapping were processed), get reads every key as
\* before the call, the file is as before, nothing was written and no event
\* was dispatched.
C21_TypeErrorChangesNothing ==
    (last.op \in {"set", "setObject"} /\ last.err = "type") =>
       /\ \A q \in Keys : GetNow(q) = GetIn(last.pre, q)
       /\ disk = last.preDisk
       /\ last.writes = 0
       /\ last.events = 0
       /\ last.calls = << >>

-----------------------------------------------------------------------------
(* C22: defaults declared in the schema.                                    *)

\* the keys restored by the call: those listed by reset, every key by clear
Restores(k) ==
    \/ last.op = "clear"
    \/ last.op = "reset" /\ \E j \in DOMAIN last.keys : last.keys[j] = <<k>>

\* C22: on a store whose schema declares a default for a key that has no
\* entry in the defaults option, a reset of that key, or a clear, that
\* returns leaves get of the key equal to the default the schema declares.
C22_ResetToSchemaDefault ==
    \A k \in DOMAIN options.declared :
       (up /\ last.err = "" /\ Restores(k) /\ k \notin DOMAIN options.defaults.f)
       => GetNow(<<k>>) = options.declared[k]

-----------------------------------------------------------------------------
(* C23: the order of validation, write, cache and event.                    *)

\* C23: when a callback runs, the cached document passes the schema, the
\* file holds its serialization, and the newValue the callback receives is
\* what the getter of its subscription reads from the cached document (the
\* document itself for onDidAnyChange, get(key) for onDidChange); and a
\* write the schema rejects writes no file and dispatches no event.
C23_CommitOrder ==
    /\ \A j \in DOMAIN last.calls :
          LET c == last.calls[j]
          IN /\ schemaOn => validator(c.doc)
             /\ c.file = [exists |-> TRUE, doc |-> JsonWrite(c.doc)]
             /\ c.new = IF subs[c.sub].kind = "any" THEN c.doc
                        ELSE GetIn(c.doc, subs[c.sub].key)
    /\ last.err = "schema" => last.writes = 0 /\ last.events = 0

\* a set of foo has invoked the callback of onDidChange('foo') while the
\* file already held the new value
C23_Witness ==
    /\ Returned("set")
    /\ \E j \in DOMAIN last.calls :
          /\ subs[last.calls[j].sub].kind = "key"
          /\ subs[last.calls[j].sub].key = P_foo
          /\ last.calls[j].new = Str("foo")
          /\ last.calls[j].file # last.preDisk

-----------------------------------------------------------------------------
(* C24: the order of the migrations.                                        *)

\* C24: in whatever order the migrations are supplied, the hooks a
\* construction invokes are in ascending order of version; each receives
\* the version the file records when the hook starts, which is the version
\* of the file before the construction for the first hook and the version
\* of the migration before it for every other; and when the construction
\* returns the file records the version of the last hook.
C24_MigrationOrder ==
    last.op = "construct" =>
       /\ \A j \in DOMAIN last.hooks :
             /\ last.hooks[j].arg = VersionOn(last.hooks[j].file)
             /\ last.hooks[j].arg = IF j = 1 THEN VersionOn(last.preDisk)
                                    ELSE last.hooks[j - 1].m.version
             /\ j > 1 => last.hooks[j - 1].m.version <= last.hooks[j].m.version
       /\ (last.err = "" /\ last.hooks # << >>) =>
             VersionOn(disk) = last.hooks[Len(last.hooks)].m.version

\* migrations 2 and 1 supplied in descending order, both hooks invoked
C24_Witness ==
    /\ Returned("construct")
    /\ Len(last.opts.migs) = 2
    /\ last.opts.migs[1].version > last.opts.migs[2].version
    /\ Len(last.hooks) = 2

-----------------------------------------------------------------------------
(* C25: a construction interrupted during a migration.                      *)

\* the last construction was interrupted during a migration
Interrupted == last.op = "construct" /\ last.err \in {"hook", "crash"}

\* the migration during which the last construction was interrupted
InterruptedAt == last.hooks[Len(last.hooks)].m

\* the migrations the last construction completed
Completed == {last.hooks[j].m : j \in 1..(Len(last.hooks) - 1)}

\* the entries of the last construction's list have different versions
DistinctVersions ==
    \A j, k \in DOMAIN last.opts.migs :
       j # k => last.opts.migs[j].version # last.opts.migs[k].version

\* what C25 states of a construction interrupted during migration m
FileAfterInterrupt ==
    /\ ~up
    /\ VersionOn(disk) = IF Len(last.hooks) = 1 THEN VersionOn(last.preDisk)
                         ELSE last.hooks[Len(last.hooks) - 1].m.version
    /\ GetIn(disk.doc, InterruptedAt.key) = InterruptedAt.val

\* what C25 states of the construction that follows with the same list
Retried ==
    /\ \A j \in DOMAIN last'.hooks : last'.hooks[j].m \notin Completed
    /\ last'.hooks # << >>
    /\ last'.hooks[1].m = InterruptedAt

-----------------------------------------------------------------------------
(* C26: migrations of the same version.                                     *)

\* C26 as stated: every hook a construction invokes belongs to a migration
\* whose version is greater than the version the file records when the hook
\* starts, so no two hooks of one construction have the same version.
C26_Original ==
    last.op = "construct" =>
       /\ \A j \in DOMAIN last.hooks :
             last.hooks[j].m.version > VersionOn(last.hooks[j].file)
       /\ \A j, k \in DOMAIN last.hooks :
             j # k => last.hooks[j].m.version # last.hooks[k].m.version

\* the number of entries of the sequence sq that have version v
CountVersion(sq, v) == Cardinality({j \in DOMAIN sq : sq[j].version = v})

\* C26, amended: every hook a construction invokes belongs to a migration
\* whose version is greater than the version the file recorded when the
\* construction started, and a construction that returns has invoked, for
\* every such version, as many hooks as the list has entries of that
\* version: entries of one version all run.
C26_FilteredAtStart ==
    (last.op = "construct" /\ last.err \notin {"hook", "crash"}) =>
       LET n == VersionOn(last.preDisk)
       IN /\ \A j \in DOMAIN last.hooks : last.hooks[j].m.version > n
          /\ last.err = "" =>
                \A j \in DOMAIN last.opts.migs :
                   LET v == last.opts.migs[j].version
                   IN CountVersion(HooksRun, v) =
                         IF v > n THEN CountVersion(last.opts.migs, v) ELSE 0

\* a construction with two migrations of version 1 has invoked both hooks
C26_Witness ==
    /\ Returned("construct")
    /\ last.opts.migs = <<Migrations1, Migrations1b>>
    /\ Len(last.hooks) = 2

-----------------------------------------------------------------------------
(* C27: what reset leaves alone.                                            *)

\* the keys listed by the last reset that have a usable default
Restored == {j \in DOMAIN last.keys : HasUsableDefault(last.keys[j])}

\* C27: after a reset(k1, ..., kn), get reads as before the call every key
\* that is neither a listed key with a default that is not null nor absent
\* nor a path into such a key: so every listed key without a usable default
\* and every key not listed; and when no listed key has a usable default
\* nothing was written and no event dispatched.
C27_ResetFrame ==
    last.op = "reset" =>
       /\ \A q \in Keys :
             (\A j \in Restored : ~IsPrefix(last.keys[j], q)) => GetNow(q) = GetIn(last.pre, q)
       /\ Restored = {} =>
             /\ last.err = ""
             /\ last.writes = 0
             /\ last.events = 0
             /\ disk = last.preDisk

\* reset('foo', 'bar') on a store whose default of foo is null and whose
\* default of bar is not, with other values held for both: foo is kept
C27_Witness ==
    /\ Returned("reset")
    /\ last.keys = <<P_foo, P_bar>>
    /\ "foo" \in DOMAIN GivenDefaults
    /\ GivenDefaults["foo"] = Null
    /\ GetNow(P_foo) = Str("foo")
    /\ GetIn(last.pre, P_bar) # GetNow(P_bar)

-----------------------------------------------------------------------------
(* C28: intermediate documents.                                             *)

\* C28: the document a callback can read while it runs, and the newValue an
\* onDidAnyChange callback receives, is the document the operation that
\* invoked it leaves when it returns, never a document the operation holds
\* in between: not the emptied document of a clear whose defaults are not
\* yet restored, not the document of a reset with only some keys restored.
C28_NoIntermediateDocument ==
    last.err = "" =>
       \A j \in DOMAIN last.calls :
          /\ last.calls[j].doc = Doc
          /\ subs[last.calls[j].sub].kind = "any" => last.calls[j].new = Doc

-----------------------------------------------------------------------------
(* C29: errors of the write.                                                *)

\* C29: only an EXDEV error of the atomic write is caught, and once: a set
\* whose atomic write failed with EXDEV and whose direct write succeeded
\* returns, the document with the key set is the cached one and on the file
\* and one event was dispatched; a set whose write failed with another
\* error, or whose direct write failed, throws, the cached object keeps its
\* properties (the document is as before, but for a nested object the path
\* of the set leads into), no event was dispatched, no callback invoked,
\* and the file is as before the set: nothing is tried again.
C29_WriteErrors ==
    /\ []((io.pc # "idle" /\ io.code # "") => (io.code = "EXDEV" /\ io.direct))
    /\ []((io.pc = "idle" /\ io.code # "") =>
            /\ up
            /\ last.op = "set"
            /\ last.err = "io"
            /\ last.events = 0
            /\ last.calls = << >>
            /\ disk = last.preDisk
            /\ Len(last.keys[1]) = 1 => Doc = last.pre
            /\ DOMAIN Doc.f = DOMAIN last.pre.f
            /\ \A k \in DOMAIN Doc.f : k # last.keys[1][1] => Doc.f[k] = last.pre.f[k])
    /\ [][(io.code = "EXDEV" /\ io'.pc = "idle" /\ io'.code = "") =>
            /\ last'.op = "set"
            /\ last'.err = ""
            /\ last'.events = 1
            /\ Doc' = SetIn(last'.pre, last'.keys[1], last'.vals[1])
            /\ disk' = [exists |-> TRUE, doc |-> JsonWrite(Doc')]]_vars

\* a set of a top-level key has thrown because the write failed with
\* EACCES, on a store whose document it would have changed
C29_Witness ==
    /\ io.pc = "idle"
    /\ io.code = "EACCES"
    /\ last.op = "set"
    /\ last.err = "io"
    /\ Len(last.keys[1]) = 1
    /\ GetIn(last.pre, last.keys[1]) # last.vals[1]

-----------------------------------------------------------------------------
(* C30: subscriptions are independent.                                      *)

\* the listeners by value: kind, key, subscription and captured value
ListenersByValue(h, listeners) ==
    [j \in DOMAIN listeners |->
        [kind |-> listeners[j].kind, key |-> listeners[j].key, id |-> listeners[j].id,
         cur |-> Snapshot(h, listeners[j].cur)]]

\* the callback of subscription id is among those the last call invoked
Invoked(id) == \E j \in DOMAIN last.calls : subs[last.calls[j].sub].id = id

\* C30: a subscription invokes no callback when it is made; once the
\* unsubscribe function of a subscription has been called, no later call
\* invokes its callback; and calling it leaves the listeners of the other
\* subscriptions, also of one on the same key, as they were, with the
\* values they had captured, so that they are invoked by the same writes.
C30_IndependentSubscriptions ==
    /\ [](last.op = "subscribe" => last.calls = << >>)
    /\ \A id \in 1..MaxHandles :
          []((last.op = "unsubscribe" /\ last.vals = <<Num(id)>>) => [](~Invoked(id)))
    /\ [][last'.op = "unsubscribe" =>
            ListenersByValue(heap', subs') =
               SelectSeq(ListenersByValue(heap, subs), LAMBDA l : <<Num(l.id)>> # last'.vals)]_vars

\* two subscriptions on foo were made, the first was ended, and a set of
\* foo has invoked the callback of the second
C30_Witness ==
    /\ Returned("set")
    /\ handles = 2
    /\ Len(subs) = 1
    /\ subs[1].id = 2
    /\ subs[1].key = P_foo
    /\ Invoked(2)

-----------------------------------------------------------------------------
(* C31: two instances on one file.                                          *)

\* get(key) on the second instance: the property of a copy of its store,
\* by value
PeerGet(key) ==
    LET g == storeGet(PeerNow) IN Snapshot(g.h, getProperty(g.h, g.a, key, 1, Undef))

\* the calls on the first and on the second instance
OwnOps == {"construct", "set", "delete"}

PeerOps == {"peerConstruct", "peerSet", "peerDelete"}

\* C31 as stated: after a set(k1, v) on A that returns, followed by a
\* set(k2, w) on B that returns, k1 # k2, the file does not hold v at k1.
C31_Original ==
    [][(/\ last.op = "set" /\ last.err = ""
        /\ last'.op = "peerSet" /\ last'.err = ""
        /\ last.keys[1] # last'.keys[1])
       => GetIn(FileDoc(disk'), last.keys[1]) # last.vals[1]]_vars

\* C31: a call on one instance leaves what the other reads with get as it
\* was; a write of B that returns leaves in the file the serialized cached
\* document of B; and after a set(k1, v) on A that returns, followed by a
\* set(k2, w) on B that returns, the file does not hold v at k1, provided
\* that k2 is neither k1 nor an ancestor or a descendant of it and that the
\* document B had cached did not itself hold v at k1.
C31_NoSharedView ==
    /\ [][/\ (last'.op \in OwnOps /\ peer.up) => \A k \in Keys : PeerGet(k)' = PeerGet(k)
          /\ (last'.op \in PeerOps /\ up) => \A k \in Keys : GetNow(k)' = GetNow(k)]_vars
    /\ []((last.op \in {"peerSet", "peerDelete"} /\ last.err = "")
            => disk = [exists |-> TRUE, doc |-> SerializerWrite(peer.heap, peer.root)])
    /\ [][(/\ last.op = "set" /\ last.err = ""
           /\ last'.op = "peerSet" /\ last'.err = ""
           /\ ~Related(last.keys[1], last'.keys[1])
           /\ GetIn(PeerDoc, last.keys[1]) # last.vals[1])
          => GetIn(FileDoc(disk'), last.keys[1]) # last.vals[1]]_vars

\* A has set foo and reads it back, B has then set bar.baz, and the file
\* holds the document of B, without foo
C31_Witness ==
    /\ up
    /\ peer.up
    /\ Returned("peerSet")
    /\ last.keys = <<P_baz>>
    /\ GetNow(P_foo) = Str("foo")
    /\ PeerGet(P_foo) = Undef
    /\ GetIn(FileDoc(disk), P_foo) = Undef
    /\ FileDoc(disk) = PeerDoc

-----------------------------------------------------------------------------
(* C32: the cache and the file.                                             *)

\* the file deserialized is deep-equal to the cached document
Coherent ==
    LET p == SerializerRead(heap, disk.doc) IN deepEqual(p.h, p.v, Ref(root))

\* C32: whenever an instance exists, no call on it is executing and the
\* file exists, the document read from the file is deep-equal to the cached
\* document, also after calls that threw.
C32_CacheDiskCoherence == (up /\ io.pc = "idle" /\ disk.exists) => Coherent

-----------------------------------------------------------------------------
(* C33: the recorded defaults stay as supplied.                             *)

\* C33: while an instance exists, defaultValues is by value the defaults
\* option it was constructed with and shares no object with the cached
\* document, whatever was set, deleted, reset or cleared, also by dot-path
\* into a value that came from a default or from a reset; hence a reset(k)
\* that returns leaves get(k) deep-equal to the default supplied for k, for
\* every k whose default reset restores (one that is not null).
C33_DefaultsKept ==
    up =>
       /\ Snapshot(heap, Ref(defs.a)) = Obj(GivenDefaults)
       /\ Reach(heap, Ref(root)) \cap Reach(heap, Ref(defs.a)) = {}
       /\ Returned("reset") =>
             \A i \in 1..Len(last.keys) :
                HasUsableDefault(last.keys[i]) =>
                   GetNow(last.keys[i]) = Obj(GivenDefaults).f[last.keys[i][1]]

\* bar.baz was set by dot-path into the object bar of a store whose default
\* of bar is {baz: 100}, and a reset of bar has brought the default back
C33_Witness ==
    /\ Returned("reset")
    /\ last.keys = <<P_bar>>
    /\ HasUsableDefault(P_bar)
    /\ GivenDefaults["bar"] = Baz(100)
    /\ GetIn(last.pre, P_baz) = Num(0)
    /\ GetNow(P_baz) = Num(100)

-----------------------------------------------------------------------------
(* C34: the values a subscription passes form a chain.                      *)

\* the invocations before the j-th of a call that are of the same subscription
Earlier(calls, j) == SelectSeq(SubSeq(calls, 1, j - 1), LAMBDA c : c.sub = calls[j].sub)

\* C34: the oldValue of every invocation of a callback is deep-equal to the
\* newValue of the previous invocation of the same subscription or, for the
\* first one, to the value watched when the subscription was made.
C34_ValueChain ==
    [][\A j \in DOMAIN last'.calls :
          LET c == last'.calls[j]
              e == Earlier(last'.calls, j)
          IN c.old = IF e # << >> THEN e[Len(e)].new ELSE subs[c.sub].seen]_vars

====
